---- MODULE Spec2Model ----
(***************************************************************************)
(* CRP-Trial: the synthetic trajectory generator (crptrial/generate/       *)
(* generator.py), the time-to-normalization deriver and the mixed-model    *)
(* fits of the analysis engine (crptrial/analysis/stats.py).               *)
(*                                                                         *)
(* Numbers.  Every CRP quantity is an integer number of thousandths        *)
(* (150 mg/L is 150000), so that round(x, 2) is a real operation: it maps  *)
(* a value to the nearest multiple of 10.  Decay rates are thousandths     *)
(* too.  Standard-normal draws are tenths.                                 *)
(*                                                                         *)
(* Random source.  numpy's global generator is a deterministic function of *)
(* its state; it is modelled as a Lehmer generator over 1..30 whose state  *)
(* np.random.seed replaces, and every draw reads a representative value    *)
(* out of a table and advances the state by one step.                      *)
(***************************************************************************)
EXTENDS Integers, Sequences, FiniteSets, TLC

\* ---------------------------------------------------------------- state
VARIABLES
    cfg,                  \* the arguments of generate_crp_data, fixed for both calls
    rng,                  \* state of the shared random generator
    run,                  \* 1 or 2: which call of generate_crp_data is running
    pc,                   \* position inside generate_crp_data
    patient_ids,          \* the current batch of identifiers
    idx,                  \* enumerate index of the patient loop
    day,                  \* the inner loop's day
    baseline,             \* the current patient's baseline
    individual_variation, \* the current patient's individual variation
    all_data,             \* the rows appended so far
    returned,             \* per call: what it returned (or that it raised)
    floors,               \* history: the min_crp drawn for each stored row
    raws,                 \* history: the value each row had before the floor
    discarded,            \* history: whether this call threw a batch away, the last
                          \* batch thrown away, whether each one held a collision
    entryDirty,           \* history: per call, whether it was entered with a generator
                          \* state other than the one its seed gives
    ttnIn,                \* the single-patient frame handed to time_to_normalize
    ttnPc,                \* which derivations of it have been made
    ttnOut,               \* time_to_normalize of the frame
    ttnOutShuffled,       \* time_to_normalize of the same rows in another order
    impl,                 \* which analysis module runs: "crptrial" (crptrial/analysis/
                          \* stats.py, called by cli.py) or "script" (src/analyse.py,
                          \* called by src/main.py)
    df,                   \* the loaded dataset handed to the analysis
    apc,                  \* position inside analyze_data / analyze_crp_data
    attempts,             \* history: every model.fit call, in order, with its outcome
    warnings,             \* what the analysis printed as a warning
    raised,               \* the exception that left the analysis, or "none"
    calls,                \* 1 or 2: which call of analyze_data on df is running
    dtypes,               \* the dtype of df's group and patient_id columns
    described,            \* per call of analyze_data: its descriptive tables
    ad_result,            \* the comparisons of the last analyze_data that got to them
    t_test_results,       \* what the per-day loop of analyze_crp_data handed back
    seedings,             \* history: how often np.random.seed ran in this run
    effectLog,            \* history: per stored row, the value and the generator
                          \* state before and the generator state after lines 99-106
    draws,                \* history: the draws of the patient loop of this call, in
                          \* order: what each was for and the generator state it used
    expIn,                \* the dataset handed to save_excel_format
    expPc,                \* position inside save_excel_format
    wide_df,              \* its wide table: the column labels and the rows
    expFile,              \* what it wrote: "none", "xlsx" or "csv"
    cliArgs,              \* the command line and whether the input file exists
    cliPc,                \* position inside main
    cliLog,               \* history: what main did, in order
    cliOut,               \* what main printed about an error, or "none"
    allocN,               \* the allocator under random choice: the batch size
    allocIds,             \* the identifiers of the batch being drawn
    allocPc,              \* position inside the allocation
    allocRetried          \* history: a batch was discarded

genVars == << cfg, rng, run, pc, patient_ids, idx, day, baseline, individual_variation,
              all_data, returned, floors, raws, discarded, entryDirty, seedings,
              effectLog, draws >>
ttnVars == << ttnIn, ttnPc, ttnOut, ttnOutShuffled >>
anaVars == << impl, df, apc, attempts, warnings, raised, calls, dtypes, described,
              ad_result, t_test_results >>
expVars == << expIn, expPc, wide_df, expFile >>
cliVars == << cliArgs, cliPc, cliLog, cliOut >>
allocVars == << allocN, allocIds, allocPc, allocRetried >>
notGen == << ttnVars, anaVars, expVars, cliVars, allocVars >>
notTtn == << genVars, anaVars, expVars, cliVars, allocVars >>
notAna == << genVars, ttnVars, expVars, cliVars, allocVars >>
notExp == << genVars, ttnVars, anaVars, cliVars, allocVars >>
notCli == << genVars, ttnVars, anaVars, expVars, allocVars >>
notAlloc == << genVars, ttnVars, anaVars, expVars, cliVars >>

vars == << genVars, ttnVars, anaVars, expVars, cliVars, allocVars >>

\* ------------------------------------------------------------- bounds
MaxPerGroup == 2
MaxSeed == 4

\* --------------------------------------------------- program constants
NumDays == 8
IdWidth == 6
IdHigh == 1000000
NormalizeThreshold == 100000

Days == 0 .. (NumDays - 1)

\* ------------------------------------------------------------ helpers
Max(a, b) == IF a >= b THEN a ELSE b

RECURSIVE Pow10(_)
Pow10(n) == IF n = 0 THEN 1 ELSE 10 * Pow10(n - 1)

\* len(str(k)) for k >= 0
RECURSIVE NumDigits(_)
NumDigits(k) == IF k < 10 THEN 1 ELSE 1 + NumDigits(k \div 10)

\* round(x, 2) on thousandths: nearest multiple of 10, ties to even
Round2(x) ==
    LET q == x \div 10
        r == x % 10
    IN  IF r < 5 THEN 10 * q
        ELSE IF r > 5 THEN 10 * (q + 1)
        ELSE IF q % 2 = 0 THEN 10 * q ELSE 10 * (q + 1)

\* exp(-t/10) in ten-thousandths, by compounding exp(-0.1) = 0.9048
RECURSIVE ExpNegTenths(_)
ExpNegTenths(t) == IF t <= 0 THEN 10000 ELSE (ExpNegTenths(t - 1) * 9048) \div 10000

\* --------------------------------------------------- the random source
RngStates == 1 .. 30

NextRng(s) == (3 * s) % 31

\* the call has no effect on the generator
SeedStateKeep(seed) == rng

\* np.random.seed(seed): the state becomes a function of the seed alone
SeedState(seed) == (seed % 30) + 1

\* representative values of randint(low, high): both ends of [low, high-1]
RandIntSamples(low, high) ==
    << low, low + 1, low + 42, low + 999, (low + high) \div 2, high - 2, high - 1 >>

\* standard normal draws, in tenths
ZSamples == << 0, -10, 13, -25, 4 >>

\* standard exponential draws, in thousandths
ExpSamples == << 0, 8, 12, 694, 3000 >>

\* np.random.randint(low, high)
RandInt(s, low, high) ==
    LET t == RandIntSamples(low, high)
    IN  [val |-> t[(s % Len(t)) + 1], rng |-> NextRng(s)]

\* np.random.normal(loc, scale); the caller checks scale >= 0
Normal(s, loc, scale) ==
    [val |-> loc + ((scale * ZSamples[(s % Len(ZSamples)) + 1]) \div 10),
     rng |-> NextRng(s)]

\* np.random.exponential(scale)
Exponential(s, scale) ==
    [val |-> (scale * ExpSamples[(s % Len(ExpSamples)) + 1]) \div 1000,
     rng |-> NextRng(s)]

\* ------------------------------------------------- identifier allocator
PatientIdNoPad(k) == 64 * Pow10(NumDigits(k)) + k

\* int('64' + str(k).zfill(6))
PatientIdOf(k) ==
    LET width == Max(IdWidth, NumDigits(k))
    IN  64 * Pow10(width) + k

generate_patient_id(s) ==
    LET r == RandInt(s, 0, IdHigh)
    IN  [val |-> PatientIdOf(r.val), rng |-> r.rng]

\* [generate_patient_id() for _ in range(count)]
RECURSIVE DrawIds(_, _)
DrawIds(s, count) ==
    IF count = 0 THEN [ids |-> << >>, rng |-> s]
    ELSE LET g == generate_patient_id(s)
             rest == DrawIds(g.rng, count - 1)
         IN  [ids |-> << g.val >> \o rest.ids, rng |-> rest.rng]

SeqSet(q) == { q[i] : i \in 1 .. Len(q) }

NeverCollides(ids) == FALSE

\* only the first two identifiers are compared
CollidesOnFirstPair(ids) == Len(ids) >= 2 /\ ids[1] = ids[2]

\* len(set(patient_ids)) < len(patient_ids)
HasCollision(ids) == Cardinality(SeqSet(ids)) < Len(ids)

\* keeps the batch and redraws only the positions that repeat an earlier one
RECURSIVE RedrawColliding(_, _, _)
RedrawColliding(ids, s, i) ==
    IF i > Len(ids) THEN [ids |-> ids, rng |-> s]
    ELSE IF \E j \in 1 .. (i - 1) : ids[j] = ids[i]
         THEN LET g == generate_patient_id(s)
              IN  RedrawColliding([ids EXCEPT ![i] = g.val], g.rng, i + 1)
         ELSE RedrawColliding(ids, s, i + 1)

ResampleColliding(ids, s) == RedrawColliding(ids, s, 1)

\* the loop body: the whole batch is drawn again
ResampleBatch(ids, s) == DrawIds(s, Len(ids))

\* ------------------------------------------------- trajectory simulator
\* 0.5 + np.random.exponential(0.5)
get_min_crp(s) ==
    LET e == Exponential(s, 500) IN [val |-> 500 + e.val, rng |-> e.rng]

\* the peaks of the two groups exchanged
PeakOfSwapped(c, is_treated) == IF is_treated THEN c.peak_control ELSE c.peak_treated

PeakOf(c, is_treated) == IF is_treated THEN c.peak_treated ELSE c.peak_control
DecayOf(c, is_treated) == IF is_treated THEN c.decay_treated ELSE c.decay_control

\* base_crp of days 1..7
BaseCrp(c, is_treated, bl, d) ==
    LET peak == PeakOf(c, is_treated)
        decay == DecayOf(c, is_treated)
    IN  IF d <= 2
        THEN bl + (((peak - bl) * d) \div 2)
        ELSE (peak * (ExpNegTenths((decay * (d - 2)) \div 100) \div 10)) \div 1000

\* a draw: what it was for, and the generator state it used
Draw(kind, s) == [kind |-> kind, s |-> s]

\* on day 0 the noise is drawn before the floor
PhaseValueNoiseFirst(s, c, is_treated, bl, indiv, d) ==
    IF d = 0
    THEN LET z == Normal(s, 0, 15000)
             m == get_min_crp(z.rng)
         IN  [crp |-> Max(m.val, bl + z.val), rng |-> m.rng, err |-> FALSE,
              draws |-> << Draw("noise", s), Draw("min_crp", z.rng) >>]
    ELSE LET base == BaseCrp(c, is_treated, bl, d)
             scale == IF d <= 2 THEN (base * 3) \div 10 ELSE (base * 35) \div 100
             z == Normal(s, 0, scale)
         IN  [crp |-> base + z.val + indiv, rng |-> z.rng, err |-> scale < 0,
              draws |-> << Draw("noise", s) >>]

\* lines 82-97: the value before the day effect
PhaseValue(s, c, is_treated, bl, indiv, d) ==
    IF d = 0
    THEN LET m == get_min_crp(s)
             z == Normal(m.rng, 0, 15000)
         IN  [crp |-> Max(m.val, bl + z.val), rng |-> z.rng, err |-> FALSE,
              draws |-> << Draw("min_crp", s), Draw("noise", m.rng) >>]
    ELSE LET base == BaseCrp(c, is_treated, bl, d)
             scale == IF d <= 2 THEN (base * 3) \div 10 ELSE (base * 35) \div 100
             z == Normal(s, 0, scale)
         IN  [crp |-> base + z.val + indiv, rng |-> z.rng, err |-> scale < 0,
              draws |-> << Draw("noise", s) >>]

\* the control group is shifted like the treated one, upwards
DayEffectSymmetric(s, c, is_treated, d, crp) ==
    IF d \in DOMAIN c.day_effects /\ c.day_effects[d] > 0
    THEN LET effect_size == c.day_effects[d]
             re == Normal(s, 0, (effect_size * 3) \div 10)
         IN  [crp |-> IF is_treated THEN crp - (effect_size + re.val)
                      ELSE crp + effect_size + re.val,
              rng |-> re.rng, draws |-> << Draw("effect", s) >>]
    ELSE [crp |-> crp, rng |-> s, draws |-> << >>]

\* only a treated observation draws a random_effect
DayEffectTreatedOnly(s, c, is_treated, d, crp) ==
    IF d \in DOMAIN c.day_effects /\ c.day_effects[d] > 0 /\ is_treated
    THEN LET effect_size == c.day_effects[d]
             re == Normal(s, 0, (effect_size * 3) \div 10)
         IN  [crp |-> crp - (effect_size + re.val),
              rng |-> re.rng, draws |-> << Draw("effect", s) >>]
    ELSE [crp |-> crp, rng |-> s, draws |-> << >>]

\* every entry of the mapping is applied, whatever its sign
DayEffectAnySign(s, c, is_treated, d, crp) ==
    IF d \in DOMAIN c.day_effects
    THEN LET effect_size == c.day_effects[d]
             re == Normal(s, 0, (effect_size * 3) \div 10)
         IN  [crp |-> IF is_treated THEN crp - (effect_size + re.val) ELSE crp + re.val,
              rng |-> re.rng, draws |-> << Draw("effect", s) >>]
    ELSE [crp |-> crp, rng |-> s, draws |-> << >>]

\* lines 99-106: the day-specific treatment effect
DayEffect(s, c, is_treated, d, crp) ==
    IF d \in DOMAIN c.day_effects /\ c.day_effects[d] > 0
    THEN LET effect_size == c.day_effects[d]
             re == Normal(s, 0, (effect_size * 3) \div 10)
         IN  [crp |-> IF is_treated THEN crp - (effect_size + re.val) ELSE crp + re.val,
              rng |-> re.rng, draws |-> << Draw("effect", s) >>]
    ELSE [crp |-> crp, rng |-> s, draws |-> << >>]

\* the floor is forgotten
StoredCrpNoFloor(m, crp) == Round2(crp)

\* line 113: round(max(get_min_crp(), crp), 2), given the drawn floor
StoredCrp(m, crp) == Round2(Max(m, crp))

\* one pass of the inner loop, lines 82-114
SimulateDay(s, c, is_treated, bl, indiv, d) ==
    LET p == PhaseValue(s, c, is_treated, bl, indiv, d)
        e == DayEffect(p.rng, c, is_treated, d, p.crp)
        m == get_min_crp(e.rng)
    IN  [err |-> p.err, raw |-> e.crp, floor |-> m.val,
         crp |-> StoredCrp(m.val, e.crp), rng |-> m.rng,
         effect |-> [before |-> p.crp, rngBefore |-> p.rng, rngAfter |-> e.rng],
         draws |-> p.draws \o e.draws \o << Draw("floor", e.rng) >>]

\* ------------------------------------------------------ configurations
DefaultParams ==
    [baseline_mean |-> 5000, baseline_sd |-> 2000,
     peak_treated |-> 150000, peak_control |-> 180000,
     decay_treated |-> 500, decay_control |-> 300]

ParamSets ==
    { DefaultParams,
      [DefaultParams EXCEPT !.peak_treated = 90000, !.peak_control = 110000],
      [DefaultParams EXCEPT !.peak_control = -20000] }

DayEffectSets ==
    { (3 :> 15000) @@ (4 :> 25000) @@ (5 :> 35000) @@ (6 :> 30000) @@ (7 :> 20000),
      (5 :> 50000),
      (5 :> 500000),
      (0 :> 20000) @@ (2 :> -10000) @@ (4 :> 0) @@ (9 :> 30000),
      [d \in {} |-> 0] }

Seeds == (0 .. MaxSeed) \cup {42}

Configs ==
    { [n_per_group |-> n, params |-> p, day_effects |-> de, random_seed |-> sd] :
        n \in 0 .. MaxPerGroup, p \in ParamSets, de \in DayEffectSets, sd \in Seeds }

\* the keyword arguments as generate_crp_data reads them
Args(c) ==
    [n_per_group |-> c.n_per_group,
     baseline_mean |-> c.params.baseline_mean, baseline_sd |-> c.params.baseline_sd,
     peak_treated |-> c.params.peak_treated, peak_control |-> c.params.peak_control,
     decay_treated |-> c.params.decay_treated, decay_control |-> c.params.decay_control,
     day_effects |-> c.day_effects, random_seed |-> c.random_seed]


NotCalled == [status |-> "none", df |-> << >>]

NoneDiscarded == [any |-> FALSE, last |-> << >>, collided |-> TRUE]

GenInit ==
    /\ cfg \in { Args(c) : c \in Configs }
    /\ rng \in RngStates
    /\ run = 1
    /\ pc = "idle"
    /\ patient_ids = << >>
    /\ idx = 0
    /\ day = 0
    /\ baseline = 0
    /\ individual_variation = 0
    /\ all_data = << >>
    /\ returned = [r \in 1 .. 2 |-> NotCalled]
    /\ floors = << >>
    /\ raws = << >>
    /\ discarded = NoneDiscarded
    /\ entryDirty = [r \in 1 .. 2 |-> FALSE]
    /\ seedings = 0
    /\ effectLog = << >>
    /\ draws = << >>

\* src/generate.py line 240: the script's entry point seeds the generator with
\* 42 and then calls generate_crp_data with its default seed, which seeds it
\* once more (line 43 there, line 52 of generator.py)
ScriptMainSeed ==
    /\ UNCHANGED notGen
    /\ pc = "idle"
    /\ run = 1
    /\ seedings = 0
    /\ cfg.random_seed = 42
    /\ rng' = SeedState(42)
    /\ seedings' = 1
    /\ UNCHANGED << cfg, run, pc, patient_ids, idx, day, baseline, individual_variation,
                    all_data, returned, floors, raws, discarded, entryDirty, effectLog,
                    draws >>

\* line 52: np.random.seed(random_seed)
GenSeed ==
    /\ UNCHANGED notGen
    /\ pc = "idle"
    /\ rng' = SeedState(cfg.random_seed)
    /\ pc' = "ids"
    /\ patient_ids' = << >>
    /\ idx' = 0
    /\ day' = 0
    /\ baseline' = 0
    /\ individual_variation' = 0
    /\ all_data' = << >>
    /\ floors' = << >>
    /\ raws' = << >>
    /\ discarded' = NoneDiscarded
    /\ entryDirty' = [entryDirty EXCEPT ![run] = (rng # (cfg.random_seed % 30) + 1)]
    /\ seedings' = seedings + 1
    /\ effectLog' = << >>
    /\ draws' = << >>
    /\ UNCHANGED << cfg, run, returned >>

\* line 55: the first batch
GenDrawIds ==
    /\ UNCHANGED notGen
    /\ pc = "ids"
    /\ LET b == DrawIds(rng, 2 * cfg.n_per_group)
       IN  /\ patient_ids' = b.ids
           /\ rng' = b.rng
    /\ pc' = "loop"
    /\ UNCHANGED << cfg, run, idx, day, baseline, individual_variation, all_data,
                    returned, floors, raws, discarded, entryDirty,
                    seedings, effectLog, draws >>

\* lines 56-57: the loop condition holds, the batch is drawn again
GenResample ==
    /\ UNCHANGED notGen
    /\ pc = "loop"
    /\ HasCollision(patient_ids)
    /\ LET b == ResampleBatch(patient_ids, rng)
       IN  /\ patient_ids' = b.ids
           /\ rng' = b.rng
    /\ discarded' = [any |-> TRUE, last |-> patient_ids,
                      collided |-> discarded.collided /\ HasCollision(patient_ids)]
    /\ UNCHANGED << cfg, run, pc, idx, day, baseline, individual_variation, all_data,
                    returned, floors, raws, entryDirty,
                    seedings, effectLog, draws >>

\* lines 56, 60-63: the loop condition fails, the patient loop starts
GenStartPatients ==
    /\ UNCHANGED notGen
    /\ pc = "loop"
    /\ ~HasCollision(patient_ids)
    /\ pc' = "patient"
    /\ idx' = 0
    /\ all_data' = << >>
    /\ UNCHANGED << cfg, rng, run, patient_ids, day, baseline, individual_variation,
                    returned, floors, raws, discarded, entryDirty,
                    seedings, effectLog, draws >>

\* the draws of one step, with the patient and the day they were made for
Tagged(ds, i, d) ==
    [k \in 1 .. Len(ds) |-> [kind |-> ds[k].kind, s |-> ds[k].s, patient |-> i, day |-> d]]

\* the groups alternate along the batch
IsTreatedAlternating(i, n) == i % 2 = 0

\* line 72: is_treated = idx < n_per_group
IsTreated(i, n) == i < n

\* lines 70-79: the next patient's characteristics (normal raises on scale < 0)
GenPatient ==
    /\ UNCHANGED notGen
    /\ pc = "patient"
    /\ idx < Len(patient_ids)
    /\ IF cfg.baseline_sd < 0
       THEN /\ pc' = "raised"
            /\ returned' = [returned EXCEPT ![run] = [status |-> "ValueError", df |-> << >>]]
            /\ UNCHANGED << rng, baseline, individual_variation, day, draws >>
       ELSE LET b == Normal(rng, cfg.baseline_mean, cfg.baseline_sd)
                v == Normal(b.rng, 0, 35000)
            IN  /\ baseline' = b.val
                /\ individual_variation' = v.val
                /\ rng' = v.rng
                /\ draws' = draws \o Tagged(<< Draw("baseline", rng),
                                                Draw("individual_variation", b.rng) >>,
                                             idx, 0)
                /\ day' = 0
                /\ pc' = "day"
                /\ UNCHANGED returned
    /\ UNCHANGED << cfg, run, patient_ids, idx, all_data, floors, raws, discarded,
                    entryDirty, seedings, effectLog >>

\* lines 81-114: one observation
GenDay ==
    /\ UNCHANGED notGen
    /\ pc = "day"
    /\ LET is_treated == IsTreated(idx, cfg.n_per_group)
           o == SimulateDay(rng, cfg, is_treated, baseline, individual_variation, day)
       IN  IF o.err
           THEN /\ pc' = "raised"
                /\ returned' = [returned EXCEPT ![run] = [status |-> "ValueError", df |-> << >>]]
                /\ UNCHANGED << rng, all_data, floors, raws, effectLog, draws, idx, day >>
           ELSE /\ rng' = o.rng
                /\ all_data' = Append(all_data,
                                      [patient_id |-> patient_ids[idx + 1],
                                       group |-> IF is_treated THEN "treated" ELSE "control",
                                       day |-> day,
                                       crp |-> o.crp])
                /\ floors' = Append(floors, o.floor)
                /\ raws' = Append(raws, o.raw)
                /\ effectLog' = Append(effectLog, o.effect)
                /\ draws' = draws \o Tagged(o.draws, idx, day)
                /\ IF day = NumDays - 1
                   THEN /\ idx' = idx + 1
                        /\ day' = 0
                        /\ pc' = "patient"
                   ELSE /\ day' = day + 1
                        /\ UNCHANGED << idx, pc >>
                /\ UNCHANGED returned
    /\ UNCHANGED << cfg, run, patient_ids, baseline, individual_variation, discarded,
                    entryDirty, seedings >>

\* lines 117-118: the DataFrame is returned
GenReturn ==
    /\ UNCHANGED notGen
    /\ pc = "patient"
    /\ idx = Len(patient_ids)
    /\ returned' = [returned EXCEPT ![run] = [status |-> "ok", df |-> all_data]]
    /\ pc' = "done"
    /\ UNCHANGED << cfg, rng, run, patient_ids, idx, day, baseline, individual_variation,
                    all_data, floors, raws, discarded, entryDirty,
                    seedings, effectLog, draws >>

\* the caller calls generate_crp_data again with the same arguments
GenCallAgain ==
    /\ UNCHANGED notGen
    /\ pc \in {"done", "raised"}
    /\ run = 1
    /\ run' = 2
    /\ pc' = "idle"
    /\ UNCHANGED << cfg, rng, patient_ids, idx, day, baseline, individual_variation,
                    all_data, returned, floors, raws, discarded, entryDirty,
                    seedings, effectLog, draws >>

TtnIdle ==
    /\ ttnIn = << >>
    /\ ttnPc = "off"
    /\ ttnOut = << >>
    /\ ttnOutShuffled = << >>

AnaIdle ==
    /\ impl = "crptrial"
    /\ df = << >>
    /\ apc = "off"
    /\ attempts = << >>
    /\ warnings = << >>
    /\ raised = "none"
    /\ calls = 1
    /\ dtypes = [group |-> "object", patient_id |-> "int64"]
    /\ described = << >>
    /\ ad_result = [made |-> FALSE]
    /\ t_test_results = << >>

ExpIdle ==
    /\ expIn = << >>
    /\ expPc = "off"
    /\ wide_df = << >>
    /\ expFile = "none"

CliIdle ==
    /\ cliArgs = << >>
    /\ cliPc = "off"
    /\ cliLog = << >>
    /\ cliOut = [text |-> "none", exception |-> "none"]

AllocIdle ==
    /\ allocN = 0
    /\ allocIds = << >>
    /\ allocPc = "off"
    /\ allocRetried = FALSE

Init == GenInit /\ TtnIdle /\ AnaIdle /\ ExpIdle /\ CliIdle /\ AllocIdle

Next ==
    \/ ScriptMainSeed
    \/ GenSeed
    \/ GenDrawIds
    \/ GenResample
    \/ GenStartPatients
    \/ GenPatient
    \/ GenDay
    \/ GenReturn
    \/ GenCallAgain

Spec == Init /\ [][Next]_vars

\* -------------------------------------------- time-to-normalization deriver
\* a result is << d >> for the number d and << >> for NaN
NaN == << >>
Num(d) == << d >>

\* Series.min() of a non-empty column
RECURSIVE SeriesMin(_)
SeriesMin(col) ==
    IF Len(col) = 1 THEN col[1]
    ELSE LET m == SeriesMin(Tail(col))
         IN  IF col[1] <= m THEN col[1] ELSE m

\* the threshold itself counts as normalized
time_to_normalize_le(group) ==
    LET normalized == SelectSeq(group, LAMBDA r : r.crp <= NormalizeThreshold)
    IN  IF normalized # << >>
        THEN Num(SeriesMin([i \in 1 .. Len(normalized) |-> normalized[i].day]))
        ELSE NaN

\* stats.py, time_to_normalize: the rows under the threshold, then their least day
time_to_normalize(group) ==
    LET normalized == SelectSeq(group, LAMBDA r : r.crp < NormalizeThreshold)
    IN  IF normalized # << >>
        THEN Num(SeriesMin([i \in 1 .. Len(normalized) |-> normalized[i].day]))
        ELSE NaN

\* the frames the deriver is tried on: up to MaxSeries rows, the crp of each
\* drawn from levels around the threshold, the days in one of four layouts
MaxSeries == 4

CrpLevels == { 80000, 90000, 99990, 100000, 120000, 150000 }

DayLayouts == { "ascending", "descending", "scattered", "repeated" }

DayAt(layout, len, i) ==
    CASE layout = "ascending" -> i - 1
      [] layout = "descending" -> len - i
      [] layout = "scattered" -> << 5, 1, 7, 0, 3, 2, 6, 4 >>[i]
      [] layout = "repeated" -> << 2, 0, 2, 1, 0, 1, 3, 3 >>[i]

FrameOf(levels, layout) ==
    [i \in 1 .. Len(levels) |-> [day |-> DayAt(layout, Len(levels), i), crp |-> levels[i]]]

TtnFrames ==
    { FrameOf(levels, layout) :
        levels \in UNION { [1 .. n -> CrpLevels] : n \in 0 .. MaxSeries },
        layout \in DayLayouts }

\* the rows of a frame, rotated by k places
Rotated(q, k) ==
    [i \in 1 .. Len(q) |-> q[((i - 1 + k) % Len(q)) + 1]]

\* the rows of a frame, last first
Reversed(q) == [i \in 1 .. Len(q) |-> q[Len(q) + 1 - i]]

TtnInit ==
    /\ ttnIn \in TtnFrames
    /\ ttnPc = "frame"
    /\ ttnOut = NaN
    /\ ttnOutShuffled = NaN

\* the deriver applied to the frame
TtnDerive ==
    /\ UNCHANGED notTtn
    /\ ttnPc = "frame"
    /\ ttnOut' = time_to_normalize(ttnIn)
    /\ ttnPc' = "derived"
    /\ UNCHANGED << ttnIn, ttnOutShuffled >>

\* the deriver applied to the same rows in another order
TtnDeriveShuffled ==
    /\ UNCHANGED notTtn
    /\ ttnPc = "derived"
    /\ \E q \in { Reversed(ttnIn) } \cup { Rotated(ttnIn, k) : k \in 1 .. Len(ttnIn) } :
           ttnOutShuffled' = << q, time_to_normalize(q) >>
    /\ ttnPc' = "both"
    /\ UNCHANGED << ttnIn, ttnOut >>

GenIdle ==
    /\ cfg = Args([n_per_group |-> 0, params |-> DefaultParams,
                   day_effects |-> (5 :> 50000), random_seed |-> 42])
    /\ rng = 1
    /\ run = 1
    /\ pc = "off"
    /\ patient_ids = << >>
    /\ idx = 0
    /\ day = 0
    /\ baseline = 0
    /\ individual_variation = 0
    /\ all_data = << >>
    /\ returned = [r \in 1 .. 2 |-> NotCalled]
    /\ floors = << >>
    /\ raws = << >>
    /\ discarded = NoneDiscarded
    /\ entryDirty = [r \in 1 .. 2 |-> FALSE]
    /\ seedings = 0
    /\ effectLog = << >>
    /\ draws = << >>

TtnNext ==
    \/ TtnDerive
    \/ TtnDeriveShuffled

TtnSpecInit == GenIdle /\ TtnInit /\ AnaIdle /\ ExpIdle /\ CliIdle /\ AllocIdle

SpecTtn == TtnSpecInit /\ [][TtnNext]_vars

\* ------------------------------------------------- mixed-effects fits
\* analyze_data of stats.py holds three fit statements in this order: line 56
\* (nm), line 59 (lbfgs, maxiter=100; the one statement the bare except clause
\* of line 60 guards) and line 63 (nm, inside the except clause).  src/analyse.py
\* and src/src/analyse.py hold the first of them only.  analyze_crp_data holds
\* one, line 116.  Each fit is one action; what the library does with the data
\* is a choice among FitOutcomes.
\* the datasets the analysis is run on: nT treated and nC control patients,
\* each with the same days, the crp of a row given by the shape of its group
MaxGroupSize == 2
AnaDays == 2

CrpShapes == { "high", "falling", "mixed", "rising" }

ShapeCrp(shape, k, d) ==
    CASE shape = "high" -> 150000
      [] shape = "falling" -> IF d = 0 THEN 150000 ELSE 90000
      [] shape = "mixed" -> IF k % 2 = 0 THEN 120000 - 30000 * d ELSE 150000 + 1000 * k
      [] shape = "rising" -> IF d = 0 THEN 80000 + 10000 * k ELSE 160000

PatientRows(id, grp, shape, k) ==
    [d \in 1 .. AnaDays |->
        [patient_id |-> id, group |-> grp, day |-> d - 1, crp |-> ShapeCrp(shape, k, d - 1)]]

RECURSIVE GroupRows(_, _, _, _)
GroupRows(n, grp, first, shape) ==
    IF n = 0 THEN << >>
    ELSE GroupRows(n - 1, grp, first, shape) \o PatientRows(first + n, grp, shape, n)

\* a loaded file need not hold every day for every group: the rows of one
\* group on one day are left out
Gaps == { [group |-> "none", day |-> 0], [group |-> "treated", day |-> AnaDays - 1],
          [group |-> "control", day |-> 0], [group |-> "both", day |-> 0] }

DropDay(rows, gap) ==
    SelectSeq(rows, LAMBDA r : ~((gap.group = "both" \/ r.group = gap.group) /\ r.day = gap.day))

AnaDatasets ==
    { DropDay(GroupRows(nT, "treated", 64000000, shapeT)
                  \o GroupRows(nC, "control", 64000100, shapeC), gap) :
        nT \in 0 .. MaxGroupSize, nC \in 0 .. MaxGroupSize,
        shapeT \in CrpShapes, shapeC \in CrpShapes, gap \in Gaps }

\* ---- the pandas operations the analysis uses
\* the column of a frame
Column(rows, name) == [i \in 1 .. Len(rows) |-> rows[i][name]]

\* the first value of a column
SeriesHead(col) == col[1]

\* Series.max() of a non-empty column
RECURSIVE SeriesMax(_)
SeriesMax(col) ==
    IF Len(col) = 1 THEN col[1]
    ELSE LET m == SeriesMax(Tail(col))
         IN  IF col[1] >= m THEN col[1] ELSE m

RECURSIVE SeriesSum(_)
SeriesSum(col) == IF col = << >> THEN 0 ELSE col[1] + SeriesSum(Tail(col))

RECURSIVE SortedInts(_)
SortedInts(S) ==
    IF S = {} THEN << >>
    ELSE LET m == CHOOSE x \in S : \A y \in S : x <= y
         IN  << m >> \o SortedInts(S \ {m})

\* a column in ascending order
RECURSIVE SortValues(_)
SortValues(col) ==
    IF col = << >> THEN << >>
    ELSE LET m == SeriesMin(col)
             i == CHOOSE j \in 1 .. Len(col) : col[j] = m
         IN  << m >> \o SortValues(SubSeq(col, 1, i - 1) \o SubSeq(col, i + 1, Len(col)))

RECURSIVE ISqrtIn(_, _, _)
ISqrtIn(n, lo, hi) ==
    IF lo = hi THEN lo
    ELSE LET mid == (lo + hi + 1) \div 2
         IN  IF mid * mid <= n THEN ISqrtIn(n, mid, hi) ELSE ISqrtIn(n, lo, mid - 1)

ISqrt(n) == ISqrtIn(n, 0, 46340)

\* mean, median and std (ddof = 1) of a column, NaN where pandas gives NaN;
\* the std is computed on tenths
SeriesMean(col) == IF col = << >> THEN NaN ELSE Num(SeriesSum(col) \div Len(col))

SeriesMedian(col) ==
    IF col = << >> THEN NaN
    ELSE LET v == SortValues(col)
             n == Len(col)
         IN  IF n % 2 = 1 THEN Num(v[(n + 1) \div 2])
             ELSE Num((v[n \div 2] + v[(n \div 2) + 1]) \div 2)

SeriesStd(col) ==
    IF Len(col) < 2 THEN NaN
    ELSE LET t == [i \in 1 .. Len(col) |-> col[i] \div 100]
             n == Len(col)
             sq == SeriesSum([i \in 1 .. n |-> t[i] * t[i]])
             sm == SeriesSum(t)
         IN  Num(100 * ISqrt((n * sq - sm * sm) \div (n * (n - 1))))

\* the order of the group labels: "control" sorts before "treated"
GroupRank(g) == IF g = "control" THEN 0 ELSE 1

KeyLess(a, b) ==
    \/ GroupRank(a[1]) < GroupRank(b[1])
    \/ (a[1] = b[1] /\ a[2] < b[2])

\* groupby sorts its keys
RECURSIVE SortedKeys(_)
SortedKeys(S) ==
    IF S = {} THEN << >>
    ELSE LET m == CHOOSE k \in S : \A o \in S : o = k \/ KeyLess(k, o)
         IN  << m >> \o SortedKeys(S \ {m})

\* the keys of groupby(['group', 'day']) without observed=True: once group is
\* categorical, every category with every day
GroupDayKeysUnobserved(rows, dt) ==
    IF dt.group = "category"
    THEN { << g, d >> : g \in { rows[i].group : i \in 1 .. Len(rows) },
                        d \in { rows[i].day : i \in 1 .. Len(rows) } }
    ELSE { << rows[i].group, rows[i].day >> : i \in 1 .. Len(rows) }

\* stats.py line 48: the keys of groupby(['group', 'day'], observed=True)
GroupDayKeys(rows, dt) == { << rows[i].group, rows[i].day >> : i \in 1 .. Len(rows) }

\* stats.py line 48: desc_stats
DescStats(rows, dt) ==
    LET keys == SortedKeys(GroupDayKeys(rows, dt))
    IN  [k \in 1 .. Len(keys) |->
            LET col == Column(SelectSeq(rows, LAMBDA r : r.group = keys[k][1]
                                                          /\ r.day = keys[k][2]), "crp")
            IN  [group |-> keys[k][1], day |-> keys[k][2],
                 mean |-> SeriesMean(col), median |-> SeriesMedian(col),
                 std |-> SeriesStd(col), count |-> Len(col)]]

Columns == { "patient_id", "group", "day", "crp" }

\* stats.py line 49: df.isnull().sum(); the datasets hold no empty cell
MissingValues(rows) == [c \in Columns |-> 0]

\* stats.py line 45: df.describe() keeps the numeric columns
SummaryColumns(dt) ==
    (IF dt.patient_id = "int64" THEN { "patient_id" } ELSE {}) \cup { "day", "crp" }

LoadedDtypes == [group |-> "object", patient_id |-> "int64"]

\* stats.py lines 52-53: both columns are replaced by categoricals, in the
\* frame the caller passed
Categorical(dt) == [dt EXCEPT !.group = "category", !.patient_id = "category"]

\* ---- the comparisons
\* scipy.stats.ttest_ind(a, b): it never raises on small samples.  With an
\* empty sample, or with one value in each, the statistic is NaN; so it is
\* when all the values are one value.  With one value in one sample and more
\* in the other the scipy releases setup.py admits differ.
ScipyVariants == { "nan_on_single", "pooled_on_single" }

ttest_ind(a, b, variant) ==
    LET values == { a[i] : i \in 1 .. Len(a) } \cup { b[i] : i \in 1 .. Len(b) }
        isNan == \/ Len(a) = 0 \/ Len(b) = 0
                 \/ Len(a) + Len(b) < 3
                 \/ Cardinality(values) = 1
                 \/ ((Len(a) = 1 \/ Len(b) = 1) /\ variant = "nan_on_single")
    IN  [ran |-> TRUE, stat |-> IF isNan THEN "nan" ELSE "number", a |-> a, b |-> b]

\* np.nan, np.nan
NotRun == [ran |-> FALSE, stat |-> "nan", a |-> << >>, b |-> << >>]

\* stats.py line 70: max_crp
MaxCrpTable(rows) ==
    LET keys == SortedKeys({ << rows[i].group, rows[i].patient_id >> : i \in 1 .. Len(rows) })
    IN  [k \in 1 .. Len(keys) |->
            [group |-> keys[k][1], patient_id |-> keys[k][2],
             crp |-> SeriesMax(Column(SelectSeq(rows, LAMBDA r : r.group = keys[k][1]
                                                   /\ r.patient_id = keys[k][2]), "crp"))]]

\* stats.py lines 74-75: time_to_normal
TimeToNormalTable(rows) ==
    LET keys == SortedKeys({ << rows[i].group, rows[i].patient_id >> : i \in 1 .. Len(rows) })
    IN  [k \in 1 .. Len(keys) |->
            [group |-> keys[k][1], patient_id |-> keys[k][2],
             days_to_normalize |->
                 time_to_normalize(SelectSeq(rows, LAMBDA r : r.group = keys[k][1]
                                                 /\ r.patient_id = keys[k][2]))]]

\* table[table['group'] == g][name]
GroupColumn(table, g, name) == Column(SelectSeq(table, LAMBDA r : r.group = g), name)

\* Series.dropna(), the numbers unwrapped
DropNa(col) ==
    LET kept == SelectSeq(col, LAMBDA x : x # NaN)
    IN  [i \in 1 .. Len(kept) |-> kept[i][1]]

\* one value in each group is taken for enough
TimeTestRunsOnOne(a, b) == Len(a) >= 1 /\ Len(b) >= 1

\* stats.py line 80
TimeTestRuns(a, b) == Len(a) > 1 /\ Len(b) > 1

NoResult ==
    [made |-> FALSE, max_crp |-> << >>, t |-> NotRun,
     treated_times |-> << >>, control_times |-> << >>, t_time |-> NotRun]

\* stats.py lines 70-95
Comparisons(rows, variant) ==
    LET max_crp == MaxCrpTable(rows)
        time_to_normal == TimeToNormalTable(rows)
        treated_times == DropNa(GroupColumn(time_to_normal, "treated", "days_to_normalize"))
        control_times == DropNa(GroupColumn(time_to_normal, "control", "days_to_normalize"))
    IN  [made |-> TRUE,
         max_crp |-> max_crp,
         t |-> ttest_ind(GroupColumn(max_crp, "treated", "crp"),
                         GroupColumn(max_crp, "control", "crp"), variant),
         treated_times |-> treated_times,
         control_times |-> control_times,
         t_time |-> IF TimeTestRuns(treated_times, control_times)
                    THEN ttest_ind(treated_times, control_times, variant)
                    ELSE NotRun]

\* stats.py lines 119-137 (src/src/analyse.py lines 172-183): one pass per day
\* of sorted(df['day'].unique())
\* one record for every day of the study window, present or not
PerDayTestsWindow(rows, variant) ==
    [k \in 1 .. AnaDays |->
        LET day_data == SelectSeq(rows, LAMBDA r : r.day = k - 1)
            treated == GroupColumn(day_data, "treated", "crp")
            control == GroupColumn(day_data, "control", "crp")
        IN  [day |-> k - 1,
             p_value |-> ttest_ind(treated, control, variant).stat,
             treated_mean |-> SeriesMean(treated),
             control_mean |-> SeriesMean(control)]]

PerDayTests(rows, variant) ==
    LET days == SortedInts({ rows[i].day : i \in 1 .. Len(rows) })
    IN  [k \in 1 .. Len(days) |->
            LET day_data == SelectSeq(rows, LAMBDA r : r.day = days[k])
                treated == GroupColumn(day_data, "treated", "crp")
                control == GroupColumn(day_data, "control", "crp")
            IN  [day |-> days[k],
                 p_value |-> ttest_ind(treated, control, variant).stat,
                 treated_mean |-> SeriesMean(treated),
                 control_mean |-> SeriesMean(control)]]

NoTable == [status |-> "none", rows |-> << >>]

\* what one call of model.fit can do: hand back a converged result, hand back
\* a result that did not converge (statsmodels warns and returns), or raise
FitOutcomes == { "converged", "not_converged", "raises" }

Fit(fn, method, maxiter, guarded, outcome) ==
    [fn |-> fn, method |-> method, maxiter |-> maxiter, guarded |-> guarded,
     outcome |-> outcome]

AnaInit ==
    /\ impl \in { "crptrial", "script" }
    /\ df \in AnaDatasets
    /\ apc = "ad_entry"
    /\ attempts = << >>
    /\ warnings = << >>
    /\ raised = "none"
    /\ calls = 1
    /\ dtypes = LoadedDtypes
    /\ described = << >>
    /\ ad_result = NoResult
    /\ t_test_results = NoTable

\* analyze_data, stats.py lines 42-55: the descriptive tables, the categorical
\* columns, the model object; nothing here looks at the group sizes
AdDescribe ==
    /\ UNCHANGED notAna
    /\ apc = "ad_entry"
    /\ described' = Append(described,
                           [seen |-> dtypes,
                            summary_columns |-> SummaryColumns(dtypes),
                            desc_stats |-> DescStats(df, dtypes),
                            missing_values |-> MissingValues(df)])
    /\ dtypes' = Categorical(dtypes)
    /\ apc' = "ad_fit_nm"
    /\ UNCHANGED << impl, df, attempts, warnings, raised, calls, ad_result, t_test_results >>

\* stats.py line 56 (src/analyse.py line 42, src/src/analyse.py line 99):
\* results = model.fit(method='nm'), outside any try
AdFitNm ==
    /\ UNCHANGED notAna
    /\ apc = "ad_fit_nm"
    /\ \E o \in FitOutcomes :
           /\ attempts' = Append(attempts, Fit("analyze_data", "nm", "none", FALSE, o))
           /\ IF o = "raises"
              THEN /\ apc' = "aborted"
                   /\ raised' = "LinAlgError"
              ELSE /\ apc' = IF impl = "crptrial" THEN "ad_fit_lbfgs" ELSE "ad_tests"
                   /\ UNCHANGED raised
    /\ UNCHANGED << impl, df, warnings, calls, dtypes, described, ad_result, t_test_results >>

\* stats.py lines 58-60: results = model.fit(method='lbfgs', maxiter=100), the
\* statement the bare except clause guards
AdFitLbfgs ==
    /\ UNCHANGED notAna
    /\ apc = "ad_fit_lbfgs"
    /\ \E o \in FitOutcomes :
           /\ attempts' = Append(attempts, Fit("analyze_data", "lbfgs", "100", TRUE, o))
           /\ apc' = IF o = "raises" THEN "ad_except" ELSE "ad_tests"
    /\ UNCHANGED << impl, df, warnings, raised, calls, dtypes, described, ad_result,
                    t_test_results >>

\* stats.py lines 60-63: the except clause prints the warning and fits with nm
AdFallback ==
    /\ UNCHANGED notAna
    /\ apc = "ad_except"
    /\ warnings' = Append(warnings, "LBFGS optimizer failed, falling back to Nelder-Mead")
    /\ \E o \in FitOutcomes :
           /\ attempts' = Append(attempts, Fit("analyze_data", "nm", "none", FALSE, o))
           /\ IF o = "raises"
              THEN /\ apc' = "aborted"
                   /\ raised' = "LinAlgError"
              ELSE /\ apc' = "ad_tests"
                   /\ UNCHANGED raised
    /\ UNCHANGED << impl, df, calls, dtypes, described, ad_result, t_test_results >>

\* stats.py lines 65-95: the coefficient table, the two t-tests, the return
AdTests ==
    /\ UNCHANGED notAna
    /\ apc = "ad_tests"
    /\ \E v \in ScipyVariants : ad_result' = Comparisons(df, v)
    /\ apc' = "acd_entry"
    /\ UNCHANGED << impl, df, attempts, warnings, raised, calls, dtypes, described,
                    t_test_results >>

\* analyze_crp_data, stats.py lines 111-116: mixed_model_results = model.fit()
\* with the library's default optimizer, outside any try
AcdFit ==
    /\ UNCHANGED notAna
    /\ apc = "acd_entry"
    /\ \E o \in FitOutcomes :
           /\ attempts' = Append(attempts, Fit("analyze_crp_data", "default", "none", FALSE, o))
           /\ IF o = "raises"
              THEN /\ apc' = "aborted"
                   /\ raised' = "LinAlgError"
              ELSE /\ apc' = "acd_tests"
                   /\ UNCHANGED raised
    /\ UNCHANGED << impl, df, warnings, calls, dtypes, described, ad_result, t_test_results >>

\* stats.py lines 118-139: the per-day t-tests, the return.  The list the loop
\* appends to is set up at src/src/analyse.py line 171; in stats.py the text
\* around line 117 is damaged and the assignment is not there, so for that
\* module the name is either bound as in the script or unbound, and unbound
\* its first use raises NameError.
AcdTests ==
    /\ UNCHANGED notAna
    /\ apc = "acd_tests"
    /\ \E bound \in (IF impl = "crptrial" THEN BOOLEAN ELSE { TRUE }) :
           IF bound
           THEN /\ \E v \in ScipyVariants :
                       t_test_results' = [status |-> "returned", rows |-> PerDayTests(df, v)]
                /\ apc' = "done"
                /\ UNCHANGED raised
           ELSE /\ apc' = "aborted"
                /\ raised' = "NameError"
                /\ UNCHANGED t_test_results
    /\ UNCHANGED << impl, df, attempts, warnings, calls, dtypes, described, ad_result >>

\* the caller hands the same DataFrame object to analyze_data once more
AdCallAgain ==
    /\ UNCHANGED notAna
    /\ apc = "done"
    /\ calls = 1
    /\ calls' = 2
    /\ apc' = "ad_entry"
    /\ attempts' = << >>
    /\ warnings' = << >>
    /\ ad_result' = NoResult
    /\ t_test_results' = NoTable
    /\ UNCHANGED << impl, df, raised, dtypes, described >>

AnaNext ==
    \/ AdDescribe
    \/ AdFitNm
    \/ AdFitLbfgs
    \/ AdFallback
    \/ AdTests
    \/ AcdFit
    \/ AcdTests
    \/ AdCallAgain

AnaSpecInit == GenIdle /\ TtnIdle /\ AnaInit /\ ExpIdle /\ CliIdle /\ AllocIdle

SpecAnalysis == AnaSpecInit /\ [][AnaNext]_vars

\* ------------------------------------------------------ wide-format export
\* save_excel_format, crptrial/utils/io.py lines 43-81.  A wide table is its
\* day columns (days: the day each column came from; labels: the i of the
\* name day_i each column carries, empty before the rename) and its rows (the
\* index and one cell per day column, NaN where the pivot had no value).
MaxExpGroup == 2

ExpId(grp, n) ==
    64 * Pow10(IdWidth) + (IF grp = "treated" THEN (7 * n) % 10 ELSE (7 * n + 5) % 10)

ExpCrp(id, d) == 100000 + 1000 * d + 111 * (id % 10) + 4

\* the days a dataset holds: the window, the window without day 3, the same
\* with a day 8 in its place, and the window moved by one
ExpDaySets ==
    { Days, Days \ {3}, (Days \ {3}) \cup {NumDays}, { d + 1 : d \in Days } }

ExpPatientRows(grp, n, days) ==
    LET ds == SortedInts(days)
    IN  [k \in 1 .. Len(ds) |->
            [patient_id |-> ExpId(grp, n), group |-> grp, day |-> ds[k],
             crp |-> ExpCrp(ExpId(grp, n), ds[k])]]

RECURSIVE ExpGroupRows(_, _, _)
ExpGroupRows(grp, n, days) ==
    IF n = 0 THEN << >>
    ELSE ExpGroupRows(grp, n - 1, days) \o ExpPatientRows(grp, n, days)

\* a file as loaded: whole, with its first row missing, or with it twice
ExpFlaws == { "none", "row_missing", "row_twice" }

Flawed(rows, flaw) ==
    IF rows = << >> \/ flaw = "none" THEN rows
    ELSE IF flaw = "row_missing" THEN Tail(rows)
    ELSE << rows[1] >> \o rows

ExpDatasets ==
    { Flawed(ExpGroupRows("treated", nT, days) \o ExpGroupRows("control", nC, days), flaw) :
        nT \in 0 .. MaxExpGroup, nC \in 0 .. MaxExpGroup, days \in ExpDaySets,
        flaw \in ExpFlaws }

\* the index of the pivot is sorted by patient_id, then group
IndexLess(a, b) ==
    \/ a[1] < b[1]
    \/ (a[1] = b[1] /\ GroupRank(a[2]) < GroupRank(b[2]))

RECURSIVE SortedIndex(_)
SortedIndex(S) ==
    IF S = {} THEN << >>
    ELSE LET m == CHOOSE k \in S : \A o \in S : o = k \/ IndexLess(k, o)
         IN  << m >> \o SortedIndex(S \ {m})

\* pivot raises ValueError when an (index, column) pair occurs twice
HasDuplicateEntries(rows) ==
    \E i, j \in 1 .. Len(rows) :
        /\ i # j
        /\ rows[i].patient_id = rows[j].patient_id
        /\ rows[i].group = rows[j].group
        /\ rows[i].day = rows[j].day

\* lines 59-63: the copy with crp rounded, pivoted, the index made columns
Pivot(rows) ==
    LET days == SortedInts({ rows[i].day : i \in 1 .. Len(rows) })
        index == SortedIndex({ << rows[i].patient_id, rows[i].group >> : i \in 1 .. Len(rows) })
        Cell(key, d) ==
            LET hit == SelectSeq(rows, LAMBDA r : r.patient_id = key[1] /\ r.group = key[2]
                                                  /\ r.day = d)
            IN  IF hit = << >> THEN NaN ELSE Num(Round2(hit[1].crp))
    IN  [days |-> days,
         labels |-> << >>,
         rows |-> [k \in 1 .. Len(index) |->
                     [patient_id |-> index[k][1], group |-> index[k][2],
                      cells |-> [c \in 1 .. Len(days) |-> Cell(index[k], days[c])]]]]

\* line 66: the columns are named by position, day_0 .. day_7
RenameColumns(w) == [w EXCEPT !.labels = [i \in 1 .. NumDays |-> i - 1]]

\* line 69: sort_values(['group', 'patient_id'])
SortRows(w) ==
    LET keys == SortedKeys({ << w.rows[k].group, w.rows[k].patient_id >> : k \in 1 .. Len(w.rows) })
    IN  [w EXCEPT !.rows =
            [k \in 1 .. Len(keys) |->
                w.rows[CHOOSE j \in 1 .. Len(w.rows) :
                           w.rows[j].group = keys[k][1] /\ w.rows[j].patient_id = keys[k][2]]]]

NoWide == [days |-> << >>, labels |-> << >>, rows |-> << >>]

ExpInit ==
    /\ expIn \in ExpDatasets
    /\ expPc = "entry"
    /\ wide_df = NoWide
    /\ expFile = "none"

\* lines 59-63
ExpPivot ==
    /\ UNCHANGED notExp
    /\ expPc = "entry"
    /\ IF HasDuplicateEntries(expIn)
       THEN /\ expPc' = "raised"
            /\ UNCHANGED wide_df
       ELSE /\ wide_df' = Pivot(expIn)
            /\ expPc' = "pivoted"
    /\ UNCHANGED << expIn, expFile >>

\* line 66: assigning ten labels to another number of columns raises
\* ValueError (length mismatch)
ExpRename ==
    /\ UNCHANGED notExp
    /\ expPc = "pivoted"
    /\ IF Len(wide_df.days) # NumDays
       THEN /\ expPc' = "raised"
            /\ UNCHANGED wide_df
       ELSE /\ wide_df' = RenameColumns(wide_df)
            /\ expPc' = "renamed"
    /\ UNCHANGED << expIn, expFile >>

\* lines 69-81: the rows are sorted, the table is written (as CSV when the
\* Excel writer cannot be imported) and returned
ExpSortSave ==
    /\ UNCHANGED notExp
    /\ expPc = "renamed"
    /\ wide_df' = SortRows(wide_df)
    /\ expFile' \in { "xlsx", "csv" }
    /\ expPc' = "done"
    /\ UNCHANGED expIn

ExpNext ==
    \/ ExpPivot
    \/ ExpRename
    \/ ExpSortSave

ExpSpecInit == GenIdle /\ TtnIdle /\ AnaIdle /\ ExpInit /\ CliIdle /\ AllocIdle

SpecExport == ExpSpecInit /\ [][ExpNext]_vars

\* ------------------------------------------------------------ entry point
\* main of crptrial/cli.py ("cli") and of src/main.py ("script"): the day
\* effects arrive as the text of --day-effects and are handed to eval.
DayEffectTexts ==
    { "{5: 50}", "{5: -50}", "[5, 50]", "5: 50", "{5: 'big'}", "{'5': 50}" }

\* cli.py line 40: eval(args.day_effects): what the text evaluates to, or the
\* exception eval raises
eval(text) ==
    CASE text = "{5: 50}" -> [raises |-> "none", type |-> "dict", key |-> << 5 >>, value |-> << 50000 >>]
      [] text = "{5: -50}" -> [raises |-> "none", type |-> "dict", key |-> << 5 >>, value |-> << -50000 >>]
      [] text = "[5, 50]" -> [raises |-> "none", type |-> "list", key |-> << >>, value |-> << >>]
      [] text = "5: 50" -> [raises |-> "SyntaxError", type |-> "none", key |-> << >>, value |-> << >>]
      [] text = "{5: 'big'}" -> [raises |-> "none", type |-> "dict", key |-> << 5 >>, value |-> << >>]
      [] text = "{'5': 50}" -> [raises |-> "none", type |-> "dict", key |-> << >>, value |-> << 50000 >>]

\* a key that is an integer day carries << d >>, a string key << >>; a numeric
\* magnitude carries << m >>, a string magnitude << >>
\* the header line of the input file, where there is one
Headers ==
    { { "patient_id", "group", "day", "crp" },
      { "Patient_ID", "Group", "Day", "CRP" },
      { "group", "day", "crp" },
      { "Patient_ID", "Group", "Day" },
      { "patient_id", "day", "crp" } }

CliArgSets ==
    [entry : { "cli", "script" }, generate : BOOLEAN, file_exists : BOOLEAN,
     day_effects : DayEffectTexts, header : Headers]

\* --generate alone decides
GeneratesOnFlag(a) == a.generate

\* cli.py line 34, src/main.py line 35: whether main generates
Generates(a) ==
    IF a.entry = "cli" THEN a.generate \/ ~a.file_exists ELSE a.generate

\* str.lower() of a column name
Lower(name) ==
    CASE name = "Patient_ID" -> "patient_id"
      [] name = "Group" -> "group"
      [] name = "Day" -> "day"
      [] name = "CRP" -> "crp"
      [] OTHER -> name

\* the header of the file main reads: save_crp_data writes all four columns
FileHeader(a) == IF Generates(a) THEN Columns ELSE a.header

\* io.py lines 20-22: the columns of the frame load_data hands back
load_data(header) == { Lower(c) : c \in header }

\* plotting.py lines 30-58: the exploratory plots saved before a plot asks for
\* a column that is not there (line plot: day, crp, group; facets: patient_id,
\* day, crp; box plot: day, crp, group)
PlotsSaved(cols) ==
    IF ~({ "day", "crp", "group" } \subseteq cols) THEN 0
    ELSE IF "patient_id" \notin cols THEN 1
    ELSE 3

\* stats.py lines 42-53: the descriptive tables analyze_data has computed
\* before it asks for a column that is not there (info and describe need none,
\* desc_stats needs group, day, crp; line 53 needs patient_id)
TablesComputed(cols) ==
    IF { "day", "crp", "group" } \subseteq cols THEN 4 ELSE 2

\* generator.py lines 81-100 with the mapping main passes: the rows stored
\* before `day_effects[day] > 0` compares a string with 0 and raises
\* TypeError, or "all" when it never does
RowsBeforeTypeError(v) ==
    IF v.key # << >> /\ v.key[1] \in Days /\ v.value = << >>
    THEN << v.key[1] >>
    ELSE << >>

Event(name, rows) == [event |-> name, rows |-> rows]
Printed(exception) == [text |-> "Error generating data", exception |-> exception]
DefaultPerGroup == 20

CliInit ==
    /\ cliArgs \in CliArgSets
    /\ cliPc = "start"
    /\ cliLog = << >>
    /\ cliOut = [text |-> "none", exception |-> "none"]

\* cli.py lines 34-36, src/main.py line 35
CliDecide ==
    /\ UNCHANGED notCli
    /\ cliPc = "start"
    /\ cliPc' = IF Generates(cliArgs) THEN "parse" ELSE "load"
    /\ UNCHANGED << cliArgs, cliLog, cliOut >>

\* cli.py lines 40-42 and 48-50: the text is evaluated; an exception of eval
\* and the ValueError for a value that is no dict are caught, printed, and
\* main returns
CliParse ==
    /\ UNCHANGED notCli
    /\ cliPc = "parse"
    /\ LET v == eval(cliArgs.day_effects)
       IN  IF v.raises # "none"
           THEN /\ cliOut' = Printed(v.raises)
                /\ cliPc' = "returned"
           ELSE IF v.type # "dict"
           THEN /\ cliOut' = Printed("ValueError")
                /\ cliPc' = "returned"
           ELSE /\ cliPc' = "generate"
                /\ UNCHANGED cliOut
    /\ UNCHANGED << cliArgs, cliLog >>

\* cli.py lines 44-45 and 48-50: generate_crp_data(day_effects=day_effects)
\* with the other defaults; an exception in it is caught, printed, and main
\* returns
CliGenerate ==
    /\ UNCHANGED notCli
    /\ cliPc = "generate"
    /\ LET stop == RowsBeforeTypeError(eval(cliArgs.day_effects))
       IN  IF stop # << >>
           THEN /\ cliLog' = Append(cliLog, Event("simulated", stop[1]))
                /\ cliOut' = Printed("TypeError")
                /\ cliPc' = "returned"
           ELSE /\ cliLog' = Append(cliLog, Event("simulated", 2 * DefaultPerGroup * NumDays))
                /\ cliPc' = "save"
                /\ UNCHANGED cliOut
    /\ UNCHANGED cliArgs

\* cli.py lines 46-47
CliSave ==
    /\ UNCHANGED notCli
    /\ cliPc = "save"
    /\ cliLog' = cliLog \o << Event("saved_csv", 2 * DefaultPerGroup * NumDays),
                              Event("saved_wide", 2 * DefaultPerGroup) >>
    /\ cliPc' = "load"
    /\ UNCHANGED << cliArgs, cliOut >>

\* cli.py lines 53-54, src/main.py lines 51-52: read_csv raises
\* FileNotFoundError when nothing was generated and the file is not there
\* (src/main.py only); nothing looks at the columns
CliLoad ==
    /\ UNCHANGED notCli
    /\ cliPc = "load"
    /\ IF ~Generates(cliArgs) /\ ~cliArgs.file_exists
       THEN /\ cliPc' = "crashed"
            /\ cliOut' = [text |-> "traceback", exception |-> "FileNotFoundError"]
            /\ UNCHANGED cliLog
       ELSE /\ cliLog' = Append(cliLog, Event("loaded", 0))
            /\ cliPc' = IF cliArgs.entry = "cli" THEN "explore" ELSE "analyze_data"
            /\ UNCHANGED cliOut
    /\ UNCHANGED cliArgs

\* cli.py line 58: create_exploratory_plots(df, output_dir)
CliExplore ==
    /\ UNCHANGED notCli
    /\ cliPc = "explore"
    /\ cliLog' = Append(cliLog, Event("explored", PlotsSaved(load_data(FileHeader(cliArgs)))))
    /\ IF ~(Columns \subseteq load_data(FileHeader(cliArgs)))
       THEN /\ cliPc' = "crashed"
            /\ cliOut' = [text |-> "traceback", exception |-> "ValueError"]
       ELSE /\ cliPc' = "analyze_data"
            /\ UNCHANGED cliOut
    /\ UNCHANGED cliArgs

\* cli.py line 62, src/main.py line 56: results = analyze_data(df); a missing
\* column is met as a KeyError where it is first used, and a fit may raise
CliAnalyzeData ==
    /\ UNCHANGED notCli
    /\ cliPc = "analyze_data"
    /\ IF ~(Columns \subseteq load_data(FileHeader(cliArgs)))
       THEN /\ cliLog' = Append(cliLog, Event("analyze_data_began",
                                              TablesComputed(load_data(FileHeader(cliArgs)))))
            /\ cliPc' = "crashed"
            /\ cliOut' = [text |-> "traceback", exception |-> "KeyError"]
       ELSE \E ok \in BOOLEAN :
               IF ok
               THEN /\ cliLog' = Append(cliLog, Event("analyze_data", 0))
                    /\ cliPc' = "analyze_crp_data"
                    /\ UNCHANGED cliOut
               ELSE /\ cliLog' = Append(cliLog, Event("analyze_data_began", 4))
                    /\ cliPc' = "crashed"
                    /\ cliOut' = [text |-> "traceback", exception |-> "LinAlgError"]
    /\ UNCHANGED cliArgs

\* cli.py line 63, src/main.py line 57: analyze_crp_data(df), which may raise
CliAnalyzeCrpData ==
    /\ UNCHANGED notCli
    /\ cliPc = "analyze_crp_data"
    /\ \E ok \in BOOLEAN :
           IF ok
           THEN /\ cliLog' = Append(cliLog, Event("analyze_crp_data", 0))
                /\ cliPc' = "report"
                /\ UNCHANGED cliOut
           ELSE /\ cliPc' = "crashed"
                /\ cliOut' = [text |-> "traceback", exception |-> "LinAlgError"]
                /\ UNCHANGED cliLog
    /\ UNCHANGED cliArgs

\* cli.py lines 66-80: the results plot, then the report; src/main.py lines
\* 60-76: the report, then the plot
CliReport ==
    /\ UNCHANGED notCli
    /\ cliPc = "report"
    /\ cliLog' = cliLog \o (IF cliArgs.entry = "cli"
                             THEN << Event("results_plot", 0), Event("reported", 0) >>
                             ELSE << Event("reported", 0), Event("results_plot", 0) >>)
    /\ cliPc' = "complete"
    /\ UNCHANGED << cliArgs, cliOut >>

CliNext ==
    \/ CliDecide
    \/ CliParse
    \/ CliGenerate
    \/ CliSave
    \/ CliLoad
    \/ CliExplore
    \/ CliAnalyzeData
    \/ CliAnalyzeCrpData
    \/ CliReport

CliSpecInit == GenIdle /\ TtnIdle /\ AnaIdle /\ ExpIdle /\ CliInit /\ AllocIdle

SpecCli == CliSpecInit /\ [][CliNext]_vars

\* ============================ the identifier allocator under random choice
\* generator.py lines 7-9 and 55-57 with the draws of np.random.randint left
\* open: every value of the range can come out of every draw.  The range of
\* 1,000,000 values is scaled down to AllocSpace values.
AllocSpace == 3
MaxAllocPerGroup == 2

\* the range of randint with both ends included
RandIntInclusive(low, high) == low .. high

\* np.random.randint(low, high): low <= value < high
RandIntRange(low, high) == low .. (high - 1)

\* generate_patient_id() over the scaled range
AllocIdValues == { PatientIdOf(v) : v \in RandIntRange(0, AllocSpace) }

AllocInit ==
    /\ allocN \in { 2 * n : n \in 1 .. MaxAllocPerGroup }
    /\ allocIds = << >>
    /\ allocPc = "draw"
    /\ allocRetried = FALSE

\* lines 55 and 57: one generate_patient_id() of the list comprehension
AllocDrawId(id) ==
    /\ UNCHANGED notAlloc
    /\ allocPc = "draw"
    /\ Len(allocIds) < allocN
    /\ allocIds' = Append(allocIds, id)
    /\ allocPc' = IF Len(allocIds) + 1 = allocN THEN "test" ELSE "draw"
    /\ UNCHANGED << allocN, allocRetried >>

\* lines 56-57: the loop condition holds, the batch is discarded
AllocResample ==
    /\ UNCHANGED notAlloc
    /\ allocPc = "test"
    /\ HasCollision(allocIds)
    /\ allocIds' = << >>
    /\ allocPc' = "draw"
    /\ allocRetried' = TRUE
    /\ UNCHANGED allocN

\* line 56: the loop condition fails, the allocation is over
AllocExit ==
    /\ UNCHANGED notAlloc
    /\ allocPc = "test"
    /\ ~HasCollision(allocIds)
    /\ allocPc' = "done"
    /\ UNCHANGED << allocN, allocIds, allocRetried >>

AllocNext ==
    \/ \E id \in AllocIdValues : AllocDrawId(id)
    \/ AllocResample
    \/ AllocExit

\* the k-th draw of a batch without a repeat so far gives a new identifier
AllocDrawFresh(k) ==
    /\ Len(allocIds) = k
    /\ ~HasCollision(allocIds)
    /\ \E id \in AllocIdValues \ SeqSet(allocIds) : AllocDrawId(id)

AllocSpecInit == GenIdle /\ TtnIdle /\ AnaIdle /\ ExpIdle /\ CliIdle /\ AllocInit

\* every step that can be taken is taken in the end, and a draw that can give
\* a new identifier infinitely often gives one infinitely often
SpecAlloc ==
    /\ AllocSpecInit
    /\ [][AllocNext]_vars
    /\ WF_vars(AllocNext)
    /\ \A k \in 0 .. (2 * MaxAllocPerGroup - 1) : SF_vars(AllocDrawFresh(k))

\* ================================================================ claims

\* what a call has handed back, once it has ended
Ended(r) == returned[r].status # "none"
Datasets == { returned[r].df : r \in { q \in 1 .. 2 : returned[q].status = "ok" } }
IdLow == 64 * Pow10(IdWidth)

\* the state of the generator k draws after s
RECURSIVE RngAfter(_, _)
RngAfter(s, k) == IF k = 0 THEN s ELSE RngAfter(NextRng(s), k - 1)

\* C1: for a fixed seed and configuration the second call of generate_crp_data
\* hands back exactly what the first did (the same rows in the same order, or
\* the same error), whatever state the generator was in when each was entered.
C1_Reproducible ==
    (Ended(1) /\ Ended(2)) => returned[2] = returned[1]

\* C1 witness: both calls returned a non-empty dataset, and the second call was
\* entered with a generator state that differs from the seeded one.
C1_Witness ==
    /\ returned[1].status = "ok" /\ returned[2].status = "ok"
    /\ Len(returned[2].df) > 0
    /\ entryDirty[2]

\* C2: a returned dataset has 2 * n_per_group * 8 rows, days within 0..7, no
\* (patient_id, day) pair twice, and for every patient exactly one row per day.
C2_Schema ==
    \A ds \in Datasets :
        LET rows == 1 .. Len(ds)
            patients == { ds[i].patient_id : i \in rows }
        IN  /\ Len(ds) = 2 * cfg.n_per_group * 8
            /\ \A i \in rows : ds[i].day \in 0 .. 7
            /\ \A i, j \in rows :
                   (ds[i].patient_id = ds[j].patient_id /\ ds[i].day = ds[j].day) => i = j
            /\ \A p \in patients : \A d \in 0 .. 7 :
                   Cardinality({ i \in rows : ds[i].patient_id = p /\ ds[i].day = d }) = 1

\* C2 witness: a dataset of two patients per group has been returned.
C2_Witness ==
    /\ returned[1].status = "ok"
    /\ cfg.n_per_group = 2
    /\ Len(returned[1].df) = 32

\* C3 as stated: no stored crp is below the min_crp drawn for its observation.
C3_NeverBelowDrawnFloor ==
    \A i \in 1 .. Len(all_data) : all_data[i].crp >= floors[i]

\* C3 amended: every stored crp is at least the drawn min_crp rounded to two
\* decimals, which is at least 0.5, so it is strictly positive; it lies less
\* than 0.01 under the drawn floor.
C3_NeverBelowRoundedFloor ==
    \A i \in 1 .. Len(all_data) :
        /\ all_data[i].crp >= Round2(floors[i])
        /\ all_data[i].crp >= 500
        /\ all_data[i].crp > 0
        /\ floors[i] - all_data[i].crp < 10

\* C3 witness: a treated observation whose day effect drove the raw value
\* negative was stored as its rounded floor.
C3_Witness ==
    \E i \in 1 .. Len(all_data) :
        /\ raws[i] < 0
        /\ all_data[i].group = "treated"
        /\ all_data[i].day \in DOMAIN cfg.day_effects
        /\ all_data[i].crp = Round2(floors[i])

\* C4: every identifier is 64 followed by six digits (64000000 + k for a k in
\* 0..999999), and the identifiers the simulation uses and the dataset carries
\* are pairwise distinct.
C4_UniqueIds ==
    /\ \A i \in 1 .. Len(patient_ids) :
           /\ patient_ids[i] \in IdLow .. (IdLow + 999999)
           /\ NumDigits(patient_ids[i]) = 8
           /\ patient_ids[i] \div Pow10(6) = 64
    /\ pc \in {"patient", "day", "done"} =>
           \A i, j \in 1 .. Len(patient_ids) : patient_ids[i] = patient_ids[j] => i = j
    /\ \A ds \in Datasets :
           Cardinality({ ds[i].patient_id : i \in 1 .. Len(ds) }) = 2 * cfg.n_per_group

\* C4 witness: a finished batch holds an identifier whose six digits needed
\* zero padding.
C4_Witness ==
    /\ pc = "done"
    /\ Len(patient_ids) >= 2
    /\ \E i \in 1 .. Len(patient_ids) : patient_ids[i] < IdLow + 1000

\* C5: a batch with a collision is replaced as a whole, every position by a
\* fresh draw in order, and nothing is simulated meanwhile; the patient loop
\* runs only on a collision-free batch, and every batch thrown away collided.
C5_WholeBatchResampled ==
    /\ [][ (pc = "loop" /\ HasCollision(patient_ids)) =>
              /\ pc' = "loop"
              /\ Len(patient_ids') = Len(patient_ids)
              /\ \A i \in 1 .. Len(patient_ids) :
                     patient_ids'[i] = generate_patient_id(RngAfter(rng, i - 1)).val
              /\ rng' = RngAfter(rng, Len(patient_ids))
              /\ all_data' = << >> ]_vars
    /\ [][ (pc' \in {"patient", "day", "done"}) =>
              /\ ~HasCollision(patient_ids')
              /\ discarded'.collided
              /\ discarded'.any => discarded'.last # patient_ids' ]_vars

\* C5 witness: the simulation runs on a batch that replaced a discarded one.
C5_Witness ==
    /\ pc = "day"
    /\ discarded.any
    /\ HasCollision(discarded.last)
    /\ Len(all_data) > 0

\* C6: time_to_normalize hands back the least day whose crp is strictly below
\* 100, and NaN when no row is below 100 (a crp of exactly 100 is not below);
\* the rows in another order give the same; [150, 120, 90, 80] on days 0..3
\* gives 2 and a series that stays at 100 or above gives NaN.
C6_FirstDayBelowThreshold ==
    LET below == { i \in 1 .. Len(ttnIn) : ttnIn[i].crp < 100 * 1000 }
    IN  /\ ttnPc \in {"derived", "both"} =>
              /\ (below = {}) => ttnOut = NaN
              /\ (below # {}) =>
                    /\ \E i \in below : ttnOut = Num(ttnIn[i].day)
                    /\ \A i \in below : ttnOut[1] <= ttnIn[i].day
              /\ ttnIn = FrameOf(<< 150000, 120000, 90000, 80000 >>, "ascending")
                    => ttnOut = Num(2)
              /\ ttnIn = FrameOf(<< 150000, 120000, 100000 >>, "ascending")
                    => ttnOut = NaN
        /\ ttnPc = "both" => ttnOutShuffled[2] = ttnOut

\* C6 witness: the series [150, 120, 90, 80] gave 2, also with its rows in
\* another order.
C6_Witness ==
    /\ ttnPc = "both"
    /\ ttnIn = FrameOf(<< 150000, 120000, 90000, 80000 >>, "ascending")
    /\ ttnOutShuffled[1] # ttnIn
    /\ ttnOut = Num(2)

\* the fit calls of one analysis function, in order
FitsOf(fn) == SelectSeq(attempts, LAMBDA a : a.fn = fn)
Failed(a) == a.outcome # "converged"
PatientsIn(grp) == { df[i].patient_id : i \in { j \in 1 .. Len(df) : df[j].group = grp } }
FitFunctions == { "analyze_data", "analyze_crp_data" }

\* C7 as stated: in every mixed-model fit a failed first optimizer never ends
\* the analysis by itself: an exception leaves a fit only after the Nelder-Mead
\* fallback was attempted and the warning printed, and once a fit is over a
\* failed first attempt has been followed by the Nelder-Mead fallback.
C7_FirstFailureFallsBack ==
    \A fn \in FitFunctions :
        LET a == FitsOf(fn)
            over == \/ apc \in {"aborted", "done"}
                    \/ (fn = "analyze_data" /\ apc \in {"ad_tests", "acd_entry", "acd_tests"})
        IN  (a # << >> /\ Failed(a[1]) /\ over) =>
                /\ Len(a) >= 2
                /\ a[2].method = "nm"
                /\ warnings # << >>

\* C8 as stated: the analysis aborts only with a ModelFitError, after exactly
\* two attempts of the fit (the first optimizer, then Nelder-Mead) both failed.
C8_ModelFitErrorAfterTwo ==
    apc = "aborted" =>
        LET a == FitsOf(attempts[Len(attempts)].fn)
        IN  /\ raised = "ModelFitError"
            /\ Len(a) = 2
            /\ Failed(a[1]) /\ Failed(a[2])

\* C9 as stated: the first attempt of every fit is the quasi-Newton optimizer
\* with a bounded iteration count, and Nelder-Mead runs only right after a
\* failed attempt, never first.
C9_QuasiNewtonFirst ==
    \A fn \in FitFunctions :
        LET a == FitsOf(fn)
        IN  a # << >> =>
                /\ a[1].method = "lbfgs"
                /\ a[1].maxiter # "none"
                /\ \A i \in 1 .. Len(a) :
                       a[i].method = "nm" => (i > 1 /\ Failed(a[i - 1]))

\* C10 as stated: with fewer than 2 patients in a group no optimizer attempt is
\* made and the analysis ends with an InsufficientDataError.
C10_FailFastOnSmallGroups ==
    (Cardinality(PatientsIn("treated")) < 2 \/ Cardinality(PatientsIn("control")) < 2) =>
        /\ attempts = << >>
        /\ apc \notin {"ad_fit_lbfgs", "ad_except", "ad_tests", "acd_entry", "acd_tests", "done"}
        /\ apc = "aborted" => raised = "InsufficientDataError"

\* the rows of one patient, and whether the patient ever normalizes
RowsOf(p) == SelectSeq(df, LAMBDA r : r.patient_id = p)
Normalizes(p) == \E i \in 1 .. Len(df) : df[i].patient_id = p /\ df[i].crp < NormalizeThreshold
NormalizingIn(grp) == { p \in PatientsIn(grp) : Normalizes(p) }
AnalyzeDataReturned ==
    ad_result.made /\ (apc = "aborted" => attempts[Len(attempts)].fn = "analyze_crp_data")

\* C11: the time-to-normalize samples hold one value for every patient of the
\* group that normalizes and none for a patient that never does; the t-test is
\* run exactly when both samples hold at least 2 values, and then on these
\* samples; otherwise the result is (NaN, NaN) and analyze_data returns.
C11_TimeTestSkipped ==
    ad_result.made =>
        LET tt == ad_result.treated_times
            ct == ad_result.control_times
        IN  /\ Len(tt) = Cardinality(NormalizingIn("treated"))
            /\ Len(ct) = Cardinality(NormalizingIn("control"))
            /\ ad_result.t_time.ran <=> (Len(tt) >= 2 /\ Len(ct) >= 2)
            /\ ad_result.t_time.ran => (ad_result.t_time.a = tt /\ ad_result.t_time.b = ct)
            /\ (Len(tt) <= 1 \/ Len(ct) <= 1) =>
                   /\ ad_result.t_time = NotRun
                   /\ AnalyzeDataReturned

\* C11 witness: two patients in each group, a treated one never normalizes, so
\* one treated value is left against two control values and the test is not run.
C11_Witness ==
    /\ ad_result.made
    /\ Cardinality(PatientsIn("treated")) = 2
    /\ Len(ad_result.treated_times) = 1
    /\ Len(ad_result.control_times) = 2
    /\ ad_result.t_time = NotRun
    /\ apc = "done"

\* C12 as stated: a day on which a group has no observation is reported with
\* an InsufficientDataError of its own in the per-day results.
C12_EmptyDayRecordsError ==
    t_test_results.status = "returned" =>
        \A k \in 1 .. Len(t_test_results.rows) :
            LET r == t_test_results.rows[k]
            IN  (r.treated_mean = NaN \/ r.control_mean = NaN) =>
                    r.p_value = "InsufficientDataError"

GroupOf(p) == (CHOOSE i \in 1 .. Len(df) : df[i].patient_id = p)

\* C13: max_crp holds exactly one row per patient, in the patient's group and
\* with the largest crp of the patient's rows; the treated sample of the
\* t-test is the values of the treated patients, the control sample those of
\* the control patients, so no patient is in both or in one twice.
C13_OneMaxPerPatient ==
    ad_result.made =>
        LET m == ad_result.max_crp
            patients == PatientsIn("treated") \cup PatientsIn("control")
            RowsFor(p) == { k \in 1 .. Len(m) : m[k].patient_id = p }
        IN  /\ Len(m) = Cardinality(patients)
            /\ \A p \in patients :
                   /\ Cardinality(RowsFor(p)) = 1
                   /\ \A k \in RowsFor(p) :
                          /\ m[k].group = df[GroupOf(p)].group
                          /\ \A i \in 1 .. Len(df) :
                                 df[i].patient_id = p => df[i].crp <= m[k].crp
                          /\ \E i \in 1 .. Len(df) :
                                 df[i].patient_id = p /\ df[i].crp = m[k].crp
            /\ ad_result.t.ran
            /\ ad_result.t.a = GroupColumn(m, "treated", "crp")
            /\ ad_result.t.b = GroupColumn(m, "control", "crp")
            /\ Len(ad_result.t.a) = Cardinality(PatientsIn("treated"))
            /\ Len(ad_result.t.b) = Cardinality(PatientsIn("control"))

\* C13 witness: two patients in each group, and the largest crp of a treated
\* patient is not on the patient's first row.
C13_Witness ==
    /\ ad_result.made
    /\ Len(ad_result.max_crp) = 4
    /\ Len(ad_result.t.a) = 2 /\ Len(ad_result.t.b) = 2
    /\ \E p \in PatientsIn("treated") : RowsOf(p)[1].crp < ad_result.t.a[1]

\* C14 as stated: with fewer than 2 values in a group of the max-CRP
\* comparison the analysis ends with an InsufficientDataError and analyze_data
\* hands back no result.
C14_SmallGroupAborts ==
    (Cardinality(PatientsIn("treated")) < 2 \/ Cardinality(PatientsIn("control")) < 2) =>
        /\ ~ad_result.made
        /\ apc \notin {"acd_entry", "acd_tests", "done"}
        /\ (apc = "aborted" /\ attempts[Len(attempts)].fn = "analyze_data"
               /\ ~Failed(attempts[Len(attempts)])) => raised = "InsufficientDataError"

EffectOn(i) ==
    IF all_data[i].day \in DOMAIN cfg.day_effects THEN cfg.day_effects[all_data[i].day] ELSE 0
HasEffect(i) == all_data[i].day \in DOMAIN cfg.day_effects /\ EffectOn(i) > 0

\* C15: on a day with a positive effect e the effect step makes exactly one
\* draw, random_effect = Normal(0, 0.3 e); a treated value goes down by
\* e + random_effect and a control value goes up by random_effect, so without
\* the noise the shift is -e for treated and 0 for control.
C15_AsymmetricEffect ==
    \A i \in 1 .. Len(all_data) :
        HasEffect(i) =>
            LET e == EffectOn(i)
                l == effectLog[i]
                scale == (e * 3) \div 10
                random_effect == (scale * ZSamples[(l.rngBefore % Len(ZSamples)) + 1]) \div 10
            IN  /\ l.rngAfter = NextRng(l.rngBefore)
                /\ all_data[i].group = "treated" =>
                       /\ raws[i] = l.before - (e + random_effect)
                       /\ (raws[i] + random_effect) - l.before = -e
                /\ all_data[i].group = "control" =>
                       /\ raws[i] = l.before + random_effect
                       /\ (raws[i] - random_effect) - l.before = 0

\* C15 witness: a finished dataset holds a treated and a control row of a day
\* with a positive effect, each with a random_effect other than 0.
C15_Witness ==
    /\ pc = "done"
    /\ \E i, j \in 1 .. Len(all_data) :
           /\ HasEffect(i) /\ HasEffect(j)
           /\ all_data[i].group = "treated" /\ all_data[j].group = "control"
           /\ raws[i] # effectLog[i].before - EffectOn(i)
           /\ raws[j] # effectLog[j].before

\* C16: on a day whose entry is missing or has a magnitude <= 0 the effect
\* step leaves the value as it was and makes no draw, and the call is not
\* ended by it; a key outside 0..7 is never the day of a row.
C16_NonPositiveSkipped ==
    /\ \A i \in 1 .. Len(all_data) :
           /\ all_data[i].day \in Days
           /\ ~HasEffect(i) =>
                  /\ raws[i] = effectLog[i].before
                  /\ effectLog[i].rngAfter = effectLog[i].rngBefore
    /\ pc = "raised" => (cfg.peak_control < 0 \/ cfg.peak_treated < 0 \/ cfg.baseline_sd < 0)

\* C16 witness: a dataset was returned under a mapping with a negative entry
\* for day 2, a zero entry for day 4 and an entry for day 9.
C16_Witness ==
    /\ pc = "done"
    /\ Len(all_data) = 2 * MaxPerGroup * NumDays
    /\ {2, 4, 9} \subseteq DOMAIN cfg.day_effects
    /\ cfg.day_effects[2] < 0
    /\ cfg.day_effects[4] = 0
    /\ returned[run].status = "ok"

\* C17 as stated: np.random.seed runs once in a run.
C17_SeededOncePerRun ==
    seedings <= 1

\* the value of the column named day_i in row k of the wide table
CellNamed(k, i) ==
    LET c == CHOOSE j \in 1 .. Len(wide_df.labels) : wide_df.labels[j] = i
    IN  wide_df.rows[k].cells[c]

\* C19 as stated: save_excel_format hands back a table for every dataset
\* without a repeated (patient, day); the table has one row per
\* (patient_id, group), ascending by (group, patient_id), and its column
\* day_i holds the patient's rounded crp of day i, for every i in 0..7.
C19_WideFormat ==
    /\ expPc = "raised" => HasDuplicateEntries(expIn)
    /\ expPc = "done" =>
           /\ \A k \in 1 .. Len(wide_df.rows) : \A i \in Days :
                  /\ i \in { wide_df.labels[j] : j \in 1 .. Len(wide_df.labels) }
                  /\ \A r \in 1 .. Len(expIn) :
                         (/\ expIn[r].patient_id = wide_df.rows[k].patient_id
                          /\ expIn[r].group = wide_df.rows[k].group
                          /\ expIn[r].day = i) => CellNamed(k, i) = Num(Round2(expIn[r].crp))
                  /\ CellNamed(k, i) # NaN =>
                         \E r \in 1 .. Len(expIn) :
                             /\ expIn[r].patient_id = wide_df.rows[k].patient_id
                             /\ expIn[r].day = i
                             /\ CellNamed(k, i) = Num(Round2(expIn[r].crp))
           /\ Len(wide_df.rows)
                  = Cardinality({ << expIn[r].patient_id, expIn[r].group >> : r \in 1 .. Len(expIn) })
           /\ \A k \in 1 .. Len(wide_df.rows) - 1 :
                  KeyLess(<< wide_df.rows[k].group, wide_df.rows[k].patient_id >>,
                          << wide_df.rows[k + 1].group, wide_df.rows[k + 1].patient_id >>)

\* a --day-effects text that is no dict, or a mapping with a key that is no
\* day number or a magnitude that is no number
Malformed(text) ==
    LET v == eval(text)
    IN  v.raises # "none" \/ v.type # "dict" \/ v.key = << >> \/ v.value = << >>

\* C20 as stated: with a malformed day-effects configuration nothing is
\* simulated, saved, loaded or analysed, and the run ends with a
\* ConfigurationError reported to the caller.
C20_ConfigurationErrorBeforeSimulation ==
    Malformed(cliArgs.day_effects) =>
        /\ cliLog = << >>
        /\ cliPc \notin { "generate", "save", "load", "explore", "analyze_data",
                         "analyze_crp_data", "report", "complete", "crashed" }
        /\ cliPc = "returned" => cliOut.exception = "ConfigurationError"

\* the names of the steps main has taken, in order
Steps == [k \in 1 .. Len(cliLog) |-> cliLog[k].event]
Took(name) == \E k \in 1 .. Len(cliLog) : cliLog[k].event = name
IsPrefix(a, b) == Len(a) <= Len(b) /\ a = SubSeq(b, 1, Len(a))

\* C21 as stated: once a file without one of the four columns (names compared
\* in lower case) has been read, the run has ended with a SchemaError and
\* nothing was plotted or analysed on the frame.
C21_SchemaErrorOnLoad ==
    (Took("loaded") /\ ~(Columns \subseteq { Lower(c) : c \in cliArgs.header })
                    /\ ~Generates(cliArgs)) =>
        /\ cliPc = "crashed"
        /\ cliOut.exception = "SchemaError"
        /\ ~Took("explored") /\ ~Took("analyze_data_began") /\ ~Took("analyze_data")

\* the stages of a run of the crptrial CLI
GenerateStages == << "simulated", "saved_csv", "saved_wide" >>
AnalysisStages ==
    << "loaded", "explored", "analyze_data", "analyze_crp_data", "results_plot", "reported" >>

\* C29: main of crptrial/cli.py generates exactly when --generate is given or
\* the input file is not there; the stages it completes are, in this order,
\* generate, save CSV, save wide export, load, exploratory plots, analyze_data,
\* analyze_crp_data, results plot, report; when generation raises, the error is
\* printed and nothing is loaded, analysed or reported; the report comes only
\* after both analysis calls.
C29_StageOrder ==
    cliArgs.entry = "cli" =>
        LET generating == cliArgs.generate \/ ~cliArgs.file_exists
            done == SelectSeq(Steps, LAMBDA e : e # "analyze_data_began")
        IN  /\ cliPc \in { "parse", "generate", "save" } => generating
            /\ Took("simulated") => generating
            /\ (cliPc \notin { "start", "parse", "generate", "save", "returned" } /\ generating)
                   => IsPrefix(GenerateStages, Steps)
            /\ (cliPc # "start" /\ ~generating) => ~Took("simulated") /\ cliPc # "returned"
            /\ IsPrefix(done, IF generating THEN GenerateStages \o AnalysisStages
                                             ELSE AnalysisStages)
            /\ cliPc = "returned" =>
                   /\ cliOut.text = "Error generating data"
                   /\ ~Took("saved_csv") /\ ~Took("loaded") /\ ~Took("explored")
                   /\ ~Took("analyze_data") /\ ~Took("analyze_crp_data") /\ ~Took("reported")
            /\ Took("reported") => (Took("analyze_data") /\ Took("analyze_crp_data"))
            /\ cliPc = "complete" => Took("reported")

\* C29 witness: a run without --generate and without an input file generated,
\* saved, loaded, analysed and reported.
C29_Witness ==
    /\ cliArgs.entry = "cli"
    /\ ~cliArgs.generate /\ ~cliArgs.file_exists
    /\ cliPc = "complete"
    /\ Steps = GenerateStages \o AnalysisStages

\* the standard draws the generator state s stands for
ZOf(s) == ZSamples[(s % Len(ZSamples)) + 1]
EOf(s) == ExpSamples[(s % Len(ExpSamples)) + 1]

\* C22: the value an observation has before the day effect is, on day 0, the
\* larger of a drawn floor and baseline + Normal(0, 15), without
\* individual_variation; on days 1-2 the linear rise from baseline to peak
\* (the peak itself on day 2) and on days 3-7 the decay peak * exp(-decay *
\* (day - 2)), each with its noise and individual_variation added; peak and
\* decay are the treated ones for a treated row, the control ones otherwise.
C22_FormulaByDayParamsByGroup ==
    [][ (pc = "day" /\ Len(all_data') = Len(all_data) + 1) =>
          LET row == all_data'[Len(all_data')]
              before == effectLog'[Len(effectLog')].before
              treated == row.group = "treated"
              peak == IF treated THEN cfg.peak_treated ELSE cfg.peak_control
              decay == IF treated THEN cfg.decay_treated ELSE cfg.decay_control
          IN  /\ row.day = day
              /\ day = 0 =>
                     before = Max(500 + ((500 * EOf(rng)) \div 1000),
                                  baseline + ((15000 * ZOf(NextRng(rng))) \div 10))
              /\ day \in 1 .. 2 =>
                     LET base == baseline + (((peak - baseline) * day) \div 2)
                     IN  /\ before = base + ((((base * 3) \div 10) * ZOf(rng)) \div 10)
                                          + individual_variation
                         /\ day = 2 => base = peak
              /\ day \in 3 .. 7 =>
                     LET base == (peak * (ExpNegTenths((decay * (day - 2)) \div 100) \div 10))
                                     \div 1000
                     IN  before = base + ((((base * 35) \div 100) * ZOf(rng)) \div 10)
                                      + individual_variation ]_vars

\* C22 witness: a control patient with an individual_variation other than 0 is
\* at day 5, the rows of a treated patient before it.
C22_Witness ==
    /\ pc = "day"
    /\ day = 5
    /\ idx >= cfg.n_per_group
    /\ individual_variation # 0
    /\ cfg.peak_treated # cfg.peak_control
    /\ Len(all_data) > NumDays
    /\ all_data[1].group = "treated"

\* the place of an identifier in the batch
PlaceOf(id) == CHOOSE k \in 1 .. Len(patient_ids) : patient_ids[k] = id

\* C27: a row's group is treated exactly when its patient is among the first
\* n_per_group identifiers of the batch; a returned dataset has n_per_group
\* patients in each group, the 8 rows of a patient carry one group, and no
\* identifier is in both groups.
C27_GroupByPosition ==
    /\ \A i \in 1 .. Len(all_data) :
           /\ all_data[i].patient_id \in SeqSet(patient_ids)
           /\ all_data[i].group = "treated" <=> PlaceOf(all_data[i].patient_id) <= cfg.n_per_group
           /\ all_data[i].group \in { "treated", "control" }
    /\ \A ds \in Datasets :
           LET In(g) == { ds[i].patient_id : i \in { j \in 1 .. Len(ds) : ds[j].group = g } }
           IN  /\ Cardinality(In("treated")) = cfg.n_per_group
               /\ Cardinality(In("control")) = cfg.n_per_group
               /\ In("treated") \cap In("control") = {}
               /\ \A p \in In("treated") \cup In("control") :
                      Cardinality({ i \in 1 .. Len(ds) : ds[i].patient_id = p }) = NumDays

\* C27 witness: a dataset of two patients per group was returned, the second
\* identifier of the batch treated, the third control.
C27_Witness ==
    /\ pc = "done"
    /\ cfg.n_per_group = 2
    /\ returned[run].status = "ok"
    /\ all_data[NumDays + 1].group = "treated"
    /\ all_data[NumDays + 1].patient_id = patient_ids[2]
    /\ all_data[2 * NumDays + 1].group = "control"

\* the days of 0..7 on which the mapping holds a positive magnitude
EffectiveDays == { d \in Days : d \in DOMAIN cfg.day_effects /\ cfg.day_effects[d] > 0 }

\* the draws one day takes, in order
DayKinds(d) ==
    (IF d = 0 THEN << "min_crp", "noise" >> ELSE << "noise" >>)
        \o (IF d \in EffectiveDays THEN << "effect" >> ELSE << >>)
        \o << "floor" >>

RECURSIVE DaysKinds(_, _)
\* the draws of patient i on days d .. 7, each with its patient and day
DaysKinds(i, d) ==
    IF d >= NumDays THEN << >>
    ELSE [k \in 1 .. Len(DayKinds(d)) |-> [kind |-> DayKinds(d)[k], patient |-> i, day |-> d]]
             \o DaysKinds(i, d + 1)

RECURSIVE PatientsKinds(_, _)
\* the draws of patients i .. n - 1
PatientsKinds(i, n) ==
    IF i >= n THEN << >>
    ELSE << [kind |-> "baseline", patient |-> i, day |-> 0],
            [kind |-> "individual_variation", patient |-> i, day |-> 0] >>
             \o DaysKinds(i, 0) \o PatientsKinds(i + 1, n)

\* the draws taken so far without their generator states
DrawOrder == [k \in 1 .. Len(draws) |-> [kind |-> draws[k].kind, patient |-> draws[k].patient,
                                         day |-> draws[k].day]]

\* C23: after seeding the identifier draws come first, whole batches only;
\* then the patients in batch order, each drawing baseline, individual_variation
\* and then days 0..7 ascending with [day 0: min_crp, noise | noise], the
\* day-effect draw if the day is effective, and the floor draw; every draw
\* takes the state the draw before it left, so no patient's draws interleave
\* with another's.
C23_DrawOrder ==
    /\ [](/\ IsPrefix(DrawOrder, PatientsKinds(0, 2 * cfg.n_per_group))
          /\ \A k \in 1 .. Len(draws) - 1 : draws[k + 1].s = NextRng(draws[k].s)
          /\ (pc \in { "patient", "day" } /\ draws # << >>) => rng = NextRng(draws[Len(draws)].s)
          /\ pc \in { "seed", "ids", "loop" } => draws = << >> /\ all_data = << >>)
    /\ [][ /\ (pc \in { "ids", "loop" } /\ rng' # rng) =>
                /\ rng' = RngAfter(rng, 2 * cfg.n_per_group)
                /\ pc' = "loop"
                /\ patient_ids' = [k \in 1 .. 2 * cfg.n_per_group |->
                                      generate_patient_id(RngAfter(rng, k - 1)).val]
           /\ (draws = << >> /\ draws' # << >>) => (pc = "patient" /\ draws'[1].s = rng)
           /\ (draws # << >> /\ draws' # << >>) => IsPrefix(draws, draws') ]_vars

\* C23 witness: the second patient is at day 1 on a day-0 effect, the first
\* batch having been drawn again.
C23_Witness ==
    /\ pc = "day"
    /\ idx = 1
    /\ day = 1
    /\ 0 \in EffectiveDays
    /\ discarded.any
    /\ draws[Len(draws)].kind = "floor"
    /\ draws[Len(draws) - 1].kind = "effect"

\* the draws one completed patient takes
DrawsPerPatient == 19 + Cardinality(EffectiveDays)

\* the draws of patient i among the draws taken
DrawsOf(i) == { k \in 1 .. Len(draws) : draws[k].patient = i }

\* the patients whose simulation is over
Simulated == IF pc \in { "patient", "done", "raised" } THEN { draws[k].patient : k \in 1 .. Len(draws) }
             ELSE { }

RECURSIVE FinalBatch(_)
\* the batch the allocation ends with, from the first batch b
FinalBatch(b) == IF Cardinality(SeqSet(b.ids)) < Len(b.ids)
                 THEN FinalBatch(ResampleBatch(b.ids, b.rng))
                 ELSE b

RECURSIVE CrpSum(_)
\* the sum of crp over the rows of df with their index in S
CrpSum(S) == IF S = {} THEN 0 ELSE LET i == CHOOSE j \in S : TRUE
                                   IN  df[i].crp + CrpSum(S \ { i })

\* the mean crp of group g on day d in df
DayGroupMean(d, g) ==
    LET S == { i \in 1 .. Len(df) : df[i].day = d /\ df[i].group = g }
    IN  IF S = {} THEN NaN ELSE Num(CrpSum(S) \div Cardinality(S))

\* C24: a returned per-day table holds one record (day, p_value,
\* treated_mean, control_mean) for each distinct day in the dataset and none
\* for an absent day, in ascending day order, the means being those of that
\* day's treated and control crp values.
C24_PerDayRecords ==
    t_test_results.status = "returned" =>
        LET recs == t_test_results.rows
            present == { df[i].day : i \in 1 .. Len(df) }
        IN  /\ Len(recs) = Cardinality(present)
            /\ { recs[k].day : k \in 1 .. Len(recs) } = present
            /\ \A k \in 1 .. Len(recs) - 1 : recs[k].day < recs[k + 1].day
            /\ \A k \in 1 .. Len(recs) :
                   /\ DOMAIN recs[k] = { "day", "p_value", "treated_mean", "control_mean" }
                   /\ recs[k].treated_mean = DayGroupMean(recs[k].day, "treated")
                   /\ recs[k].control_mean = DayGroupMean(recs[k].day, "control")

\* C24 witness: the table of a dataset without day 0, both groups observed on
\* the last day, was returned with its one record.
C24_Witness ==
    /\ t_test_results.status = "returned"
    /\ { df[i].day : i \in 1 .. Len(df) } = { AnaDays - 1 }
    /\ { df[i].group : i \in 1 .. Len(df) } = { "treated", "control" }
    /\ Len(df) > 2
    /\ Len(t_test_results.rows) = 1
    /\ t_test_results.rows[1].treated_mean # t_test_results.rows[1].control_mean

\* C26 as stated: the column types of the dataset passed to analyze_data are
\* those it was loaded with.
C26_DatasetUnchanged == dtypes = LoadedDtypes

\* C25 as stated: the identifier allocator never repeats its draw, so no
\* step leaves the generator at the loop condition it was at.
C25_AllocatorNeverRepeats == [][pc = "loop" => pc' # "loop"]_vars

\* how far the patient and day loops have come
LoopPosition(p, i, d) == i * (NumDays + 1) + (IF p = "day" THEN d + 1 ELSE 0)

\* two identifiers of the batch are equal
Repeats(ids) == \E i, j \in 1 .. Len(ids) : i < j /\ ids[i] = ids[j]

\* C25 amended: the identifier allocator repeats too: while the batch holds
\* a repeated identifier the whole batch is drawn again, and the loop is left
\* only with a batch free of repeats; the patient and day loops never repeat a
\* step, each step moving on to a later day or patient.
C25_AllocatorRetries ==
    [][ /\ (pc = "loop" /\ pc' = "loop") =>
              /\ Repeats(patient_ids)
              /\ rng' = RngAfter(rng, Len(patient_ids))
              /\ patient_ids' = [k \in 1 .. Len(patient_ids) |->
                                    generate_patient_id(RngAfter(rng, k - 1)).val]
        /\ (pc = "loop" /\ pc' # "loop") =>
              /\ ~Repeats(patient_ids)
              /\ pc' = "patient"
              /\ UNCHANGED << patient_ids, rng >>
        /\ (pc \in { "patient", "day" } /\ pc' \in { "patient", "day" }) =>
              LoopPosition(pc', idx', day') > LoopPosition(pc, idx, day) ]_vars

\* C25 witness: a batch with a repeated identifier was drawn again and the
\* batch that replaced it let the patient loop start.
C25_Witness ==
    /\ pc = "patient"
    /\ idx = 0
    /\ discarded.any
    /\ Repeats(discarded.last)
    /\ ~Repeats(patient_ids)
    /\ Len(patient_ids) = 2 * MaxPerGroup

\* C28: with a batch no larger than the range of identifiers the allocation
\* ends, and it ends as soon as a batch without a repeat is tested; with a
\* larger batch every batch holds a repeat and the allocation never ends.
C28_AllocationTerminates ==
    /\ [](allocN <= AllocSpace => <>(allocPc = "done"))
    /\ [](allocN > AllocSpace => allocPc # "done")
    /\ [](allocPc = "done" => ~Repeats(allocIds) /\ Len(allocIds) = allocN)
    /\ [](allocPc = "test" /\ allocN > AllocSpace => Repeats(allocIds))
    /\ [][(allocPc = "test" /\ ~Repeats(allocIds)) => allocPc' = "done"]_vars

\* C28 witness: the allocation of a batch that fits the range ended after a
\* batch with a repeat had been discarded.
C28_Witness ==
    /\ allocPc = "done"
    /\ allocRetried
    /\ allocN <= AllocSpace
    /\ Len(allocIds) = allocN

====
